---- MODULE Spec2Model ----
(***************************************************************************)
(* Model of the GHArchive extraction pipeline (dataset_readers/gharchive): *)
(* the archive client, the SQLite-backed StreamingWriter and the           *)
(* DataExtractor orchestrator.                                             *)
(*                                                                         *)
(* Python values are modelled as tagged records so that "key missing",     *)
(* "null" and "present" stay distinct, as dict.get and `or` see them.      *)
(* Datetimes are whole hours counted from midnight of day 0.               *)
(***************************************************************************)
EXTENDS Integers, Sequences, FiniteSets, TLC

VARIABLES
    \* ---- extraction run (DataExtractor.extract) ----
    cfg,        \* ExtractionConfig of the current run: repositories, start_date, end_date, event_types
    plan,       \* configurations of the runs still to be launched after the current one
    archive,    \* the static remote archive: hour -> response, "unknown" until first fetched
    budget,     \* how many more lines / failing hours the archive may still reveal
    pc,         \* position of the run: "new", "loop", "body", "finalize", "done", "raised", "killed"
    gen,        \* fetch_date_range generator frame: current_date, next hour index
    held,       \* hourly_events: the batch yielded by the generator and not yet appended
    writers,    \* repo_key -> (full_name, StreamingWriter session)
    store,      \* committed rows of the events table, in rowid order
    metadata,   \* rows written to the metadata table, in write order
    exc,        \* exception that ended the run ("" when none) and where it was raised
    log,        \* history of the run: hours attempted, batches yielded, hours whose batch was committed
    ref,        \* events table of a single uninterrupted run over the last planned range
    \* ---- fetch_hour_data on one response ----
    fin,        \* input: response lines and the two filters
    fout,       \* result of the call
    \* ---- one StreamingWriter session used directly ----
    ups,        \* batches A and B, the calls made so far and the table after each call
    \* ---- one StreamingWriter session from __init__ to finalize ----
    ses,        \* the session, the database it writes and what was given to it
    \* ---- Workflow.run on one record ----
    wf,         \* the step list, the context, the steps invoked so far and the result
    \* ---- cleaning runs (clean_db) ----
    cln,        \* source and destination tables, the cursor, the counters and the result
    \* ---- Workflow objects and the lists they were built from ----
    wfs,        \* the list objects, the workflows that refer to them and what each was built with
    \* ---- one call of one step on one context ----
    stp         \* the context given, the step called and what it returned

vars == <<cfg, plan, archive, budget, pc, gen, held, writers, store, metadata, exc, log, ref,
          fin, fout, ups, ses, wf, cln, wfs, stp>>

extractVars == <<cfg, plan, archive, budget, pc, gen, held, writers, store, metadata, exc, log, ref>>

-----------------------------------------------------------------------------
(* Bounds of the model *)

MaxLines == 2       \* lines in one fetch_hour_data input
MaxArchiveLines == 2 \* lines the whole archive holds
MaxFailures == 1    \* hours of the archive whose fetch fails
MaxHours == 2       \* length of the longest range of an extraction run, in hours
MaxDays == 2        \* days spanned by the ranges given to fetch_date_range
MaxBatch == 2       \* records in one batch given to append_events
MaxCalls == 3       \* append_events calls in one writer session
MaxSteps == 3       \* steps of a workflow built from the exported steps
MaxRaw == 3         \* rows of the raw events table a cleaning run starts from
MaxRuns == 2        \* cleaning runs in a row; calls of run on one record
MaxWorkflows == 2   \* Workflow objects built
MaxAppends == 1     \* steps the caller appends to lists it passed to a constructor
MaxText == 3        \* characters of a text given to a text step
MaxTokens == 3      \* tokens of a context given to a step

HoursPerDay == 24

-----------------------------------------------------------------------------
(* Python values *)

Absent == "<absent>"      \* the key is missing from the dict
Null == "<null>"          \* the key is present with JSON null (None)

\* Truthiness of an optional string: a missing key, None and "" are falsy.
Falsy(s) == s \in {Absent, Null, ""}

\* x or default
OrElse(s, default) == IF Falsy(s) THEN default ELSE s

\* An optional text: t is "absent", "null" or "str"; s is the sequence of characters.
TAbsent == [t |-> "absent", s |-> <<>>]
TNull == [t |-> "null", s |-> <<>>]
TStr(s) == [t |-> "str", s |-> s]

Whitespace == {" ", "\n", "\t", "\r"}

RECURSIVE LStrip(_)
LStrip(s) == IF s # <<>> /\ Head(s) \in Whitespace THEN LStrip(Tail(s)) ELSE s

RECURSIVE RStrip(_)
RStrip(s) ==
    IF s # <<>> /\ s[Len(s)] \in Whitespace THEN RStrip(SubSeq(s, 1, Len(s) - 1)) ELSE s

\* str.strip()
Strip(s) == RStrip(LStrip(s))

\* str.lower() on the repository names of the model
Lower(s) ==
    CASE s = "A/B" -> "a/b"
      [] s = "C/D" -> "c/d"
      [] OTHER -> s

\* An id value: t is "absent", "null", "str" or "int"; s is the text or the decimal digits.
IdAbsent == [t |-> "absent", s |-> ""]
IdNull == [t |-> "null", s |-> ""]
IdStr(s) == [t |-> "str", s |-> s]
IdInt(s) == [t |-> "int", s |-> s]

\* str(event.get("id", "")): a missing key gives "", None gives "None".
StrId(id) ==
    CASE id.t = "absent" -> ""
      [] id.t = "null" -> "None"
      [] OTHER -> id.s

-----------------------------------------------------------------------------
(* Event records as json.loads returns them *)

\* A payload sub-object (comment, review, pull_request, issue).
NoSub == [shape |-> "absent", title |-> TAbsent, body |-> TAbsent, author_association |-> Absent]
NullSub == [NoSub EXCEPT !.shape = "null"]
Sub(title, body, assoc) ==
    [shape |-> "obj", title |-> title, body |-> body, author_association |-> assoc]

NoPayload ==
    [shape |-> "absent", comment |-> NoSub, review |-> NoSub, pull_request |-> NoSub, issue |-> NoSub]
Payload(comment, review, pull_request, issue) ==
    [shape |-> "obj", comment |-> comment, review |-> review,
     pull_request |-> pull_request, issue |-> issue]

NoRepo == [shape |-> "absent", name |-> Absent]
Repo(name) == [shape |-> "obj", name |-> name]

NoActor == [shape |-> "absent", login |-> Absent]
Actor(login) == [shape |-> "obj", login |-> login]

Timestamp == "2024-02-01T00:00:00Z"

\* A well-formed IssueCommentEvent; the other events of the model vary it.
BaseEvent ==
    [json |-> "object",
     id |-> IdStr("1"),
     type |-> "IssueCommentEvent",
     created_at |-> Timestamp,
     actor |-> Actor("alice"),
     repo |-> Repo("a/b"),
     payload |-> Payload(Sub(TAbsent, TStr(<<"o", "k">>), "MEMBER"), NoSub, NoSub, NoSub)]

EvPlain == BaseEvent
\* the same id as an integer, another spelling of the repository, another body
EvIntId ==
    [BaseEvent EXCEPT !.id = IdInt("1"), !.repo = Repo("A/B"),
                      !.payload.comment.body = TStr(<<"h", "i">>)]
EvOther == [BaseEvent EXCEPT !.id = IdStr("2"), !.repo = Repo("c/d")]
EvPush == [BaseEvent EXCEPT !.id = IdStr("3"), !.type = "PushEvent"]
\* a comment whose body is whitespace only
EvNoText == [BaseEvent EXCEPT !.id = IdStr("4"), !.payload.comment.body = TStr(<<" ">>)]
EvNoId == [BaseEvent EXCEPT !.id = IdAbsent]
EvNullId == [BaseEvent EXCEPT !.id = IdNull]
\* "id": ""
EvEmptyId == [BaseEvent EXCEPT !.id = IdStr("")]
\* "comment": null on a comment event
EvNullComment == [BaseEvent EXCEPT !.id = IdStr("5"), !.payload.comment = NullSub]
\* a pull request event with a title that also carries "comment": null
EvPullNullComment ==
    [BaseEvent EXCEPT !.id = IdStr("6"), !.type = "PullRequestEvent",
                      !.payload = Payload(NullSub, NoSub,
                                          Sub(TStr(<<"f", "i", "x">>), TNull, "NONE"), NoSub)]
EvNullRepo == [BaseEvent EXCEPT !.id = IdStr("7"), !.repo = [shape |-> "null", name |-> Absent]]
\* "repo": "a/b" (a string where an object is expected)
EvStrRepo == [BaseEvent EXCEPT !.id = IdStr("8"), !.repo = [shape |-> "str", name |-> Absent]]
EvNoCreated == [BaseEvent EXCEPT !.id = IdStr("9"), !.created_at = Absent]
\* a JSON value that is not an object (a number, a list, a string)
NonObject == [BaseEvent EXCEPT !.json = "nonobject"]

\* One line of a decompressed hour file.
BlankLine == [raw |-> "blank", value |-> NonObject]
InvalidLine == [raw |-> "invalid", value |-> NonObject]
JsonLine(v) == [raw |-> "json", value |-> v]

\* All sequences over S of length at most n.
SeqUpTo(S, n) == UNION {[1..k -> S] : k \in 0..n}

-----------------------------------------------------------------------------
(* GHArchiveClient.fetch_hour_data *)

\* (event.get("repo") or {}).get("name") or ""
RepoNameOf(event) == OrElse(IF event.repo.shape = "obj" THEN event.repo.name ELSE Absent, "")

\* event.get / .get on the repo value raises AttributeError when the value has no .get
RepoLookupRaises(event) == event.json # "object" \/ event.repo.shape = "str"

\* repo_name.lower() in repo_names_lower
RepoMatchesExact(event, repo_names_lower) == RepoNameOf(event) \in repo_names_lower
RepoMatches(event, repo_names_lower) == Lower(RepoNameOf(event)) \in repo_names_lower

\* event.get("type") in event_types_set
TypeMatches(event, event_types_set) == event.type \in event_types_set

\* The loop over the lines of the decompressed response: events is the list built so far.
RECURSIVE LineLoop(_, _, _, _)
LineLoop(lines, repo_names_lower, event_types_set, events) ==
    IF lines = <<>> THEN [exc |-> "", events |-> events]
    ELSE
        LET line == Head(lines)
            event == line.value
            filter_repo == repo_names_lower # {}
            filter_type == event_types_set # {}
            continue == LineLoop(Tail(lines), repo_names_lower, event_types_set, events)
        IN  IF line.raw = "blank" THEN continue
            ELSE IF line.raw = "invalid" THEN continue
            ELSE IF filter_repo /\ RepoLookupRaises(event)
                THEN [exc |-> "AttributeError", events |-> events]
            ELSE IF filter_repo /\ ~RepoMatches(event, repo_names_lower) THEN continue
            ELSE IF filter_type /\ event.json # "object"
                THEN [exc |-> "AttributeError", events |-> events]
            ELSE IF filter_type /\ ~TypeMatches(event, event_types_set) THEN continue
            ELSE LineLoop(Tail(lines), repo_names_lower, event_types_set, Append(events, event))

\* A response of the archive for one hour: status is "ok", "conn_error" (the GET raises),
\* "http_error" (raise_for_status raises) or "stream_error" (the body breaks off or is
\* corrupt: gzip / urllib3 raise while the lines are read); lines are the lines read.
Response(status, lines) == [status |-> status, lines |-> lines]

\* exc is "" when the call returns events.
fetch_hour_data(response, repo_names, event_types) ==
    IF response.status \in {"conn_error", "http_error"}
    THEN [exc |-> "RequestException", events |-> <<>>]
    ELSE
        LET repo_names_lower == {Lower(n) : n \in repo_names}
            r == LineLoop(response.lines, repo_names_lower, event_types, <<>>)
        IN  IF r.exc # "" THEN [exc |-> r.exc, events |-> <<>>]
            ELSE IF response.status = "stream_error" THEN [exc |-> "EOFError", events |-> <<>>]
            ELSE r

-----------------------------------------------------------------------------
(* GitHubEvent.from_dict, extract_text_content and HasTextContentFilter *)

EventType ==
    {"PullRequestEvent", "PullRequestReviewEvent", "PullRequestReviewCommentEvent",
     "IssueCommentEvent"}

\* datetime.fromisoformat accepts the string
IsIsoTimestamp(s) == s \in {Timestamp}

\* "" when from_dict builds the event, else the exception it raises
from_dict(data) ==
    IF data.json # "object" THEN "AttributeError"
    ELSE IF data.type \notin EventType THEN "ValueError"
    ELSE IF data.created_at = Absent THEN "KeyError"
    ELSE IF data.created_at = Null THEN "AttributeError"
    ELSE IF ~IsIsoTimestamp(data.created_at) THEN "ValueError"
    ELSE IF data.actor.shape = "null" THEN "AttributeError"
    ELSE IF data.repo.shape \in {"null", "str"} THEN "AttributeError"
    ELSE ""

\* dict.get(key, ""): a missing key gives "", null gives None
GetText(v) == IF v.t = "absent" THEN TStr(<<>>) ELSE v

\* str(x) inside an f-string
Fmt(v) == IF v.t = "null" THEN <<"N", "o", "n", "e">> ELSE v.s

\* [exc, text]: text is an optional text (t = "null" is None)
extract_text_content(data) ==
    LET payload == data.payload
        sub == IF data.type = "PullRequestEvent" THEN payload.pull_request
               ELSE IF data.type = "PullRequestReviewEvent" THEN payload.review
               ELSE payload.comment
        title == GetText(sub.title)
        body == GetText(sub.body)
    IN  IF payload.shape = "null" \/ sub.shape = "null"
        THEN [exc |-> "AttributeError", text |-> TNull]
        ELSE IF data.type = "PullRequestEvent"
        THEN [exc |-> "",
              text |-> IF body.t = "str" /\ body.s # <<>>
                       THEN TStr(Fmt(title) \o <<"\n">> \o body.s) ELSE title]
        ELSE [exc |-> "", text |-> body]

\* "true", "false", or the exception that escapes matches
HasTextContentFilter(event) ==
    LET e == from_dict(event)
        t == extract_text_content(event)
    IN  IF e \in {"ValueError", "KeyError"} THEN "false"
        ELSE IF e # "" THEN e
        ELSE IF t.exc # "" THEN t.exc
        ELSE IF t.text.t = "str" /\ Len(Strip(t.text.s)) > 0 THEN "true" ELSE "false"

\* EventFilterPipeline.filter_events: [exc, events]
RECURSIVE filter_events(_)
filter_events(events) ==
    IF events = <<>> THEN [exc |-> "", events |-> <<>>]
    ELSE
        LET m == HasTextContentFilter(Head(events))
            rest == filter_events(Tail(events))
        IN  IF m \notin {"true", "false"} THEN [exc |-> m, events |-> <<>>]
            ELSE IF rest.exc # "" THEN rest
            ELSE [exc |-> "", events |-> IF m = "true" THEN <<Head(events)>> \o rest.events
                                          ELSE rest.events]

-----------------------------------------------------------------------------
(* storage.py: the indexed projection and StreamingWriter *)

extract_repo(event) == RepoNameOf(event)
extract_created_at(event) == OrElse(event.created_at, "")
extract_type(event) == OrElse(event.type, "")
extract_actor_login(event) == OrElse(IF event.actor.shape = "obj" THEN event.actor.login ELSE Absent, "")

\* payload.get(k, {}).get("author_association") for k = comment, review, pull_request, issue,
\* joined by `or`: a null sub-object raises when the chain reaches it. [exc, value]
RECURSIVE AssociationChain(_)
AssociationChain(subs) ==
    IF subs = <<>> THEN [exc |-> "", value |-> ""]
    ELSE
        LET sub == Head(subs)
            v == IF sub.shape = "obj" THEN sub.author_association ELSE Absent
        IN  IF sub.shape = "null" THEN [exc |-> "AttributeError", value |-> ""]
            ELSE IF ~Falsy(v) THEN [exc |-> "", value |-> v]
            ELSE AssociationChain(Tail(subs))

extract_author_association(event) ==
    LET payload == IF event.payload.shape = "obj" THEN event.payload ELSE NoPayload
    IN  AssociationChain(<<payload.comment, payload.review, payload.pull_request, payload.issue>>)

\* The row append_events builds for an event; event_data holds the event itself, which
\* json.dumps / json.loads carry over unchanged.
RowOf(event) ==
    [id |-> StrId(event.id),
     repo |-> extract_repo(event),
     created_at |-> extract_created_at(event),
     type |-> extract_type(event),
     author_association |-> extract_author_association(event).value,
     actor_login |-> extract_actor_login(event),
     event_data |-> event]

\* "" or the exception raised while the columns of the row are computed
RowRaises(event) ==
    IF event.repo.shape = "str" THEN "AttributeError"
    ELSE extract_author_association(event).exc

\* A plain INSERT into a table without the primary key: the old row stays.
InsertOnly(table, row) == Append(table, row)

\* INSERT OR IGNORE: the row that has the id stays and the new one is not stored.
InsertOrIgnore(table, row) ==
    IF \E i \in 1..Len(table) : table[i].id = row.id THEN table ELSE Append(table, row)

\* A replacement that rewrites event_data of the row that has the id and leaves its
\* indexed columns as they were.
InsertOrReplaceData(table, row) ==
    IF \E i \in 1..Len(table) : table[i].id = row.id
    THEN [i \in 1..Len(table) |->
              IF table[i].id = row.id THEN [table[i] EXCEPT !.event_data = row.event_data]
              ELSE table[i]]
    ELSE Append(table, row)

\* INSERT OR REPLACE on the primary key id: the row with that id is deleted and the new
\* row is added with a fresh rowid.
InsertOrReplace(table, row) ==
    LET Other(r) == r.id # row.id
    IN  Append(SelectSeq(table, Other), row)

\* The for loop of append_events on the connection's view of the table.
\* [exc, table, inserted]: inserted counts the INSERTs executed.
RECURSIVE AppendLoop(_, _, _)
AppendLoop(table, events, inserted) ==
    IF events = <<>> THEN [exc |-> "", table |-> table, inserted |-> inserted]
    ELSE
        LET event == Head(events)
        IN  IF event.json # "object"
            THEN [exc |-> "AttributeError", table |-> table, inserted |-> inserted]
            ELSE IF StrId(event.id) = "" THEN AppendLoop(table, Tail(events), inserted)
            ELSE IF RowRaises(event) # ""
            THEN [exc |-> RowRaises(event), table |-> table, inserted |-> inserted]
            ELSE AppendLoop(InsertOrReplace(table, RowOf(event)), Tail(events), inserted + 1)

\* StreamingWriter.__init__ on a database whose events table holds `table`.
\* txn: the connection has uncommitted INSERTs; view: the table as that transaction sees it.
NewWriter(table) ==
    [initial_count |-> Len(table), count |-> 0, conn |-> "open", txn |-> FALSE, view |-> <<>>]

\* The events table as the session's connection reads it.
ViewOf(w, db) == IF w.txn THEN w.view ELSE db

\* append_events without the commit: the rows stay in the connection's transaction.
append_events_uncommitted(w, db, events) ==
    LET r == AppendLoop(ViewOf(w, db), events, 0)
    IN  [exc |-> r.exc, db |-> db, w |-> [w EXCEPT !.txn = TRUE, !.view = r.table]]

\* append_events with a per-call increment: the count grows by the size of the batch.
append_events_incrementing(w, db, events) ==
    LET r == AppendLoop(ViewOf(w, db), events, 0)
    IN  [exc |-> r.exc, db |-> IF r.exc = "" THEN r.table ELSE db,
         w |-> [w EXCEPT !.count = @ + Len(events)]]

\* StreamingWriter.append_events on session w over the committed table db: [exc, w, db].
\* An exception leaves the executed INSERTs uncommitted in the connection.
append_events(w, db, events) ==
    LET r == AppendLoop(ViewOf(w, db), events, 0)
        dirty == w.txn \/ r.inserted > 0
    IN  IF r.exc # ""
        THEN [exc |-> r.exc, db |-> db,
              w |-> [w EXCEPT !.txn = dirty, !.view = IF dirty THEN r.table ELSE <<>>]]
        ELSE [exc |-> "", db |-> r.table,
              w |-> [w EXCEPT !.txn = FALSE, !.view = <<>>,
                              !.count = Len(r.table) - w.initial_count]]

-----------------------------------------------------------------------------
(* Values the variables of one part hold while another part runs *)

IdleExtract ==
    /\ cfg = [repositories |-> <<>>, start_date |-> 0, end_date |-> 0, event_types |-> {}]
    /\ plan = <<>>
    /\ archive = <<>>
    /\ budget = [lines |-> 0, failures |-> 0]
    /\ pc = "idle"
    /\ gen = [current_date |-> 0, hour |-> 0]
    /\ held = <<>>
    /\ writers = <<>>
    /\ store = <<>>
    /\ metadata = <<>>
    /\ exc = [type |-> "", at |-> ""]
    /\ log = [run |-> 0, prev |-> "", attempted |-> <<>>, returned |-> {}]
    /\ ref = <<>>

IdleFetch ==
    /\ fin = [response |-> Response("ok", <<>>), repo_names |-> {}, event_types |-> {}]
    /\ fout = [done |-> FALSE, exc |-> "", events |-> <<>>]

IdleUpsert == ups = <<>>

IdleSession == ses = <<>>

IdleWorkflow == wf = <<>>

IdleClean == cln = <<>>

IdleChain == wfs = <<>>

IdleStep == stp = <<>>

-----------------------------------------------------------------------------
(* GHArchiveClient.fetch_date_range: the generator *)

\* datetime.replace(hour=h) on a datetime given in hours
ReplaceHour(date, h) == (date \div HoursPerDay) * HoursPerDay + h

\* Resuming the generator frame g: "return" when the range is exhausted, else "fetch" with
\* the arguments of the next fetch_hour_data call and the frame after it.
RECURSIVE GenNext(_, _)
GenNext(g, end_date) ==
    IF g.hour = HoursPerDay
    THEN GenNext([current_date |-> g.current_date + HoursPerDay, hour |-> 0], end_date)
    ELSE IF g.hour = 0 /\ ~(g.current_date < end_date)
    THEN [kind |-> "return", date |-> g.current_date, hour |-> g.hour, g |-> g]
    ELSE IF ReplaceHour(g.current_date, g.hour) >= end_date
    THEN [kind |-> "return", date |-> g.current_date, hour |-> g.hour, g |-> g]
    ELSE [kind |-> "fetch", date |-> g.current_date, hour |-> g.hour,
          g |-> [g EXCEPT !.hour = @ + 1]]

\* The hour file that _construct_url(date, hour) addresses, as an hour count.
HourFile(date, hour) == ReplaceHour(date, hour)

-----------------------------------------------------------------------------
(* DataExtractor.extract *)

\* writers is a dict in insertion order: a sequence of [key, full_name, w].
DictIndex(d, key) ==
    IF \E i \in 1..Len(d) : d[i].key = key
    THEN CHOOSE i \in 1..Len(d) : d[i].key = key
    ELSE 0

DictSet(d, key, full_name, w) ==
    LET i == DictIndex(d, key)
        item == [key |-> key, full_name |-> full_name, w |-> w]
    IN  IF i = 0 THEN Append(d, item) ELSE [d EXCEPT ![i] = item]

\* The loop that opens one StreamingWriter per configured repository.
RECURSIVE CreateWriters(_, _, _)
CreateWriters(d, repositories, db) ==
    IF repositories = <<>> THEN d
    ELSE CreateWriters(DictSet(d, Lower(Head(repositories)), Head(repositories), NewWriter(db)),
                       Tail(repositories), db)

\* event.get("repo", {}).get("name", "") without .lower()
PartitionKeyExact(event) ==
    IF event.repo.shape \in {"null", "str"} \/ event.repo.name = Null
    THEN [exc |-> "AttributeError", key |-> ""]
    ELSE [exc |-> "", key |-> IF event.repo.shape = "obj" /\ event.repo.name # Absent
                              THEN event.repo.name ELSE ""]

\* event.get("repo", {}).get("name", "").lower(): [exc, key]
PartitionKey(event) ==
    IF event.repo.shape \in {"null", "str"} \/ event.repo.name = Null
    THEN [exc |-> "AttributeError", key |-> ""]
    ELSE [exc |-> "", key |-> Lower(IF event.repo.shape = "obj" /\ event.repo.name # Absent
                                    THEN event.repo.name ELSE "")]

\* by_repo: a defaultdict(list) in insertion order, a sequence of [key, events]. [exc, groups]
RECURSIVE Partition(_, _)
Partition(events, groups) ==
    IF events = <<>> THEN [exc |-> "", groups |-> groups]
    ELSE
        LET k == PartitionKey(Head(events))
            i == DictIndex(groups, k.key)
        IN  IF k.exc # "" THEN [exc |-> k.exc, groups |-> groups]
            ELSE Partition(Tail(events),
                           IF i = 0 THEN Append(groups, [key |-> k.key, events |-> <<Head(events)>>])
                           ELSE [groups EXCEPT ![i].events = Append(@, Head(events))])

\* for repo_key, events in by_repo.items(): writers[repo_key] ... append_events. [exc, d, db]
RECURSIVE AppendGroups(_, _, _)
AppendGroups(d, db, groups) ==
    IF groups = <<>> THEN [exc |-> "", d |-> d, db |-> db]
    ELSE
        LET i == DictIndex(d, Head(groups).key)
        IN  IF i = 0 THEN [exc |-> "KeyError", d |-> d, db |-> db]
            ELSE
                LET r == append_events(d[i].w, db, Head(groups).events)
                    d2 == [d EXCEPT ![i].w = r.w]
                IN  IF r.exc # "" THEN [exc |-> r.exc, d |-> d2, db |-> r.db]
                    ELSE AppendGroups(d2, r.db, Tail(groups))

\* The body of the for loop over fetch_date_range for one yielded batch. [exc, d, db]
LoopBody(d, db, hourly_events) ==
    LET f == filter_events(hourly_events)
        p == Partition(f.events, <<>>)
    IN  IF f.exc # "" THEN [exc |-> f.exc, d |-> d, db |-> db]
        ELSE IF p.exc # "" THEN [exc |-> p.exc, d |-> d, db |-> db]
        ELSE AppendGroups(d, db, p.groups)

\* StreamingWriter.finalize: the metadata row it writes; the commit also commits whatever
\* the connection still held uncommitted.
FinalizeMeta(item) == [record_count |-> item.w.count, writer |-> item.key]

Unknown == Response("unknown", <<>>)

ArchiveLines ==
    {JsonLine(e) : e \in {EvPlain, EvIntId, EvOther, EvNoText, EvNoId, EvNullComment,
                          EvPullNullComment}}

Min(a, b) == IF a < b THEN a ELSE b

\* Responses an hour not fetched before may turn out to hold, within what is left of the budget.
Reveal(b) ==
    {Response("ok", l) : l \in SeqUpTo(ArchiveLines, b.lines)}
        \cup (IF b.failures > 0
              THEN {Response(st, <<>>) : st \in {"http_error", "stream_error"}} ELSE {})

Spend(b, response) ==
    [lines |-> b.lines - Len(response.lines),
     failures |-> b.failures - (IF response.status = "ok" THEN 0 ELSE 1)]

Config(start, end) ==
    [repositories |-> <<"a/b", "C/D">>, start_date |-> start, end_date |-> end,
     event_types |-> {"IssueCommentEvent", "PullRequestEvent"}]

SeqToSet(q) == {q[i] : i \in 1..Len(q)}

\* run: number of the run; prev: how the run before it ended; attempted: hour files
\* requested; returned: records fetch_hour_data returned.
NewLog(run, prev) == [run |-> run, prev |-> prev, attempted |-> <<>>, returned |-> {}]

Init ==
    /\ IdleSession
    /\ IdleWorkflow
    /\ IdleClean
    /\ IdleFetch
    /\ IdleUpsert
    /\ IdleChain
    /\ IdleStep
    /\ \E n \in 1..MaxHours, k \in 1..MaxHours, two \in BOOLEAN :
           /\ k <= n
           /\ cfg = IF two THEN Config(0, k) ELSE Config(0, n)
           /\ plan = IF two THEN <<Config(0, n)>> ELSE <<>>
    /\ archive = [h \in 0..(MaxHours - 1) |-> Unknown]
    /\ budget = [lines |-> MaxArchiveLines, failures |-> MaxFailures]
    /\ pc = "new"
    /\ gen = [current_date |-> 0, hour |-> 0]
    /\ held = <<>>
    /\ writers = <<>>
    /\ store = <<>>
    /\ metadata = <<>>
    /\ exc = [type |-> "", at |-> ""]
    /\ log = NewLog(1, "")
    /\ ref = <<>>

\* extract, lines 42-51: one writer per configured repository, then the generator is made.
OpenWriters ==
    /\ pc = "new"
    /\ writers' = CreateWriters(<<>>, cfg.repositories, store)
    /\ gen' = [current_date |-> cfg.start_date, hour |-> 0]
    /\ pc' = "loop"
    /\ UNCHANGED <<cfg, plan, archive, budget, held, store, metadata, exc, log, ref, fin, fout, ups, ses, wf, cln, wfs, stp>>

\* The generator is resumed and fetches the next hour: the hour is skipped, the batch is
\* yielded to the loop body, or an exception leaves the generator and extract.
FetchHour ==
    /\ pc = "loop"
    /\ LET n == GenNext(gen, cfg.end_date)
           key == HourFile(n.date, n.hour)
       IN  /\ n.kind = "fetch"
           /\ \E response \in (IF archive[key] = Unknown THEN Reveal(budget) ELSE {archive[key]}) :
                  LET r == fetch_hour_data(response, SeqToSet(cfg.repositories), cfg.event_types)
                  IN  /\ archive' = [archive EXCEPT ![key] = response]
                      /\ budget' = IF archive[key] = Unknown THEN Spend(budget, response) ELSE budget
                      /\ gen' = n.g
                      /\ log' = [log EXCEPT !.attempted = Append(@, key),
                                            !.returned = @ \cup SeqToSet(r.events)]
                      /\ held' = r.events
                      /\ pc' = IF r.exc = "RequestException" THEN "loop"
                               ELSE IF r.exc # "" THEN "raised"
                               ELSE IF r.events = <<>> THEN "loop"
                               ELSE "body"
                      /\ exc' = IF r.exc \notin {"", "RequestException"}
                                THEN [type |-> r.exc, at |-> "fetch"] ELSE exc
    /\ UNCHANGED <<cfg, plan, writers, store, metadata, ref, fin, fout, ups, ses, wf, cln, wfs, stp>>

\* The loop body for the yielded batch: filter, partition, append to each writer.
ProcessBatch ==
    /\ pc = "body"
    /\ LET r == LoopBody(writers, store, held)
       IN  /\ writers' = r.d
           /\ store' = r.db
           /\ pc' = IF r.exc = "" THEN "loop" ELSE "raised"
           /\ exc' = IF r.exc = "" THEN exc ELSE [type |-> r.exc, at |-> "body"]
    /\ ref' = IF plan = <<>> THEN LoopBody(writers, ref, held).db ELSE ref
    /\ held' = <<>>
    /\ UNCHANGED <<cfg, plan, archive, budget, gen, metadata, log, fin, fout, ups, ses, wf, cln, wfs, stp>>

\* The loop body when the database cannot be written (disk full, file locked or gone):
\* the first append_events raises sqlite3.OperationalError and nothing is committed.
StoreWriteFails ==
    /\ pc = "body"
    /\ LET f == filter_events(held)
       IN  f.exc = "" /\ f.events # <<>> /\ Partition(f.events, <<>>).exc = ""
    /\ pc' = "raised"
    /\ exc' = [type |-> "OperationalError", at |-> "body"]
    /\ held' = <<>>
    /\ UNCHANGED <<cfg, plan, archive, budget, gen, writers, store, metadata, log, ref,
                   fin, fout, ups, ses, wf, cln, wfs, stp>>

\* The generator returns: the range is exhausted.
EndOfRange ==
    /\ pc = "loop"
    /\ GenNext(gen, cfg.end_date).kind = "return"
    /\ pc' = "finalize"
    /\ UNCHANGED <<cfg, plan, archive, budget, gen, held, writers, store, metadata, exc, log, ref,
                   fin, fout, ups, ses, wf, cln, wfs, stp>>

\* One iteration of the loop over writers.values(): finalize the next writer; after the
\* last one extract returns.
FinalizeWriter ==
    /\ pc = "finalize"
    /\ \E i \in 1..Len(writers) :
           /\ writers[i].w.conn = "open"
           /\ \A j \in 1..(i - 1) : writers[j].w.conn = "closed"
           /\ metadata' = Append(metadata, FinalizeMeta(writers[i]))
           /\ writers' = [writers EXCEPT ![i].w.conn = "closed"]
           /\ pc' = IF i = Len(writers) THEN "done" ELSE "finalize"
    /\ UNCHANGED <<cfg, plan, archive, budget, gen, held, store, exc, log, ref, fin, fout, ups, ses, wf, cln, wfs, stp>>

\* The host process is terminated between two hour iterations.
Kill ==
    /\ pc = "loop"
    /\ pc' = "killed"
    /\ UNCHANGED <<cfg, plan, archive, budget, gen, held, writers, store, metadata, exc, log, ref,
                   fin, fout, ups, ses, wf, cln, wfs, stp>>

\* The operator launches the next planned run in a new process: the connections of the
\* old process are gone, the database file and the archive stay.
Relaunch ==
    /\ pc \in {"done", "raised", "killed"}
    /\ plan # <<>>
    /\ cfg' = Head(plan)
    /\ plan' = Tail(plan)
    /\ pc' = "new"
    /\ gen' = [current_date |-> 0, hour |-> 0]
    /\ held' = <<>>
    /\ writers' = <<>>
    /\ exc' = [type |-> "", at |-> ""]
    /\ log' = NewLog(log.run + 1, pc)
    /\ ref' = <<>>
    /\ UNCHANGED <<archive, budget, store, metadata, fin, fout, ups, ses, wf, cln, wfs, stp>>

Next ==
    \/ OpenWriters
    \/ FetchHour
    \/ ProcessBatch
    \/ StoreWriteFails
    \/ EndOfRange
    \/ FinalizeWriter
    \/ Kill
    \/ Relaunch

Spec == Init /\ [][Next]_vars

RowSet(table) == {table[i] : i \in 1..Len(table)}
IdSet(table) == {table[i].id : i \in 1..Len(table)}

\* Same number of rows and the same rows (ids and stored content).
SameTable(t1, t2) == Len(t1) = Len(t2) /\ RowSet(t1) = RowSet(t2)

\* The record passes the text filter of the loop body and has a non-empty coerced id.
Persistable(e) == HasTextContentFilter(e) = "true" /\ StrId(e.id) # ""

\* C1: a run over a prefix of the hours (a shorter range, or a run killed, or ended by an
\* error, part-way) followed by a run over the full range leaves the events table with
\* the same ids and content as one uninterrupted run over the full range on the same
\* archive (a second run the database refuses to write is not compared).
C1_ResumedRunSameTable ==
    (log.run = 2 /\ pc \in {"done", "raised"} /\ exc.type # "OperationalError") =>
        SameTable(store, ref)

\* The full run completed after a killed first run that had already stored rows.
C1_Witness ==
    /\ log.run = 2 /\ pc = "done" /\ log.prev = "killed"
    /\ writers[1].w.initial_count >= 1
    /\ Len(store) >= 2

\* C5: a transport-level failure of one hour (non-2xx, connection error, broken or
\* truncated stream) never makes the run raise: the hour is skipped.
C5_TransportFailureNeverAborts ==
    ~(/\ pc = "raised" /\ exc.at = "fetch"
      /\ archive[log.attempted[Len(log.attempted)]].status # "ok")

C9_CommittedBeforeNextFetch ==
    /\ held # <<>> => pc = "body"
    /\ pc = "loop" =>
           \A e \in log.returned : Persistable(e) => StrId(e.id) \in IdSet(store)

\* An hour's batch has been committed and a further hour is about to be fetched.
C9_Witness ==
    /\ pc = "loop" /\ log.run = 1
    /\ Len(log.attempted) >= 1 /\ store # <<>>
    /\ GenNext(gen, cfg.end_date).kind = "fetch"

\* C10: when a store write failure ends the run, finalize has been attempted on every
\* open writer before the error reaches the caller.
C10_FinalizeBeforePropagation ==
    (pc = "raised" /\ exc.type = "OperationalError") =>
        \A i \in 1..Len(writers) : writers[i].w.conn = "closed"

\* C11: no extraction run ends, by returning or by raising, with a store connection it
\* opened still open.
C11_NoRunEndsWithOpenConnection ==
    pc \in {"done", "raised"} => \A i \in 1..Len(writers) : writers[i].w.conn = "closed"

-----------------------------------------------------------------------------
(* fetch_date_range iterated to exhaustion over ranges that need not start at midnight *)

RepositoryLists == {<<"a/b">>, <<"a/b", "C/D">>}

InitRange ==
    /\ IdleSession
    /\ IdleWorkflow
    /\ IdleClean
    /\ IdleFetch
    /\ IdleUpsert
    /\ IdleChain
    /\ IdleStep
    /\ \E start \in 0..(MaxDays * HoursPerDay - 1), end \in 1..(MaxDays * HoursPerDay),
          repositories \in RepositoryLists :
           /\ start < end
           /\ cfg = [Config(start, end) EXCEPT !.repositories = repositories]
           /\ gen = [current_date |-> start, hour |-> 0]
    /\ plan = <<>>
    /\ archive = <<>>
    /\ budget = [lines |-> 0, failures |-> 0]
    /\ pc = "loop"
    /\ held = <<>>
    /\ writers = <<>>
    /\ store = <<>>
    /\ metadata = <<>>
    /\ exc = [type |-> "", at |-> ""]
    /\ log = NewLog(1, "")
    /\ ref = <<>>

\* The generator requests the next hour file; the hour is empty or its fetch fails with
\* a RequestException, and the generator goes on either way.
RangeFetch ==
    /\ pc = "loop"
    /\ LET n == GenNext(gen, cfg.end_date)
       IN  /\ n.kind = "fetch"
           /\ \E status \in {"ok", "http_error", "conn_error"} :
                  fetch_hour_data(Response(status, <<>>), SeqToSet(cfg.repositories),
                                  cfg.event_types).exc \in {"", "RequestException"}
           /\ gen' = n.g
           /\ log' = [log EXCEPT !.attempted = Append(@, HourFile(n.date, n.hour))]
    /\ UNCHANGED <<cfg, plan, archive, budget, pc, held, writers, store, metadata, exc, ref,
                   fin, fout, ups, ses, wf, cln, wfs, stp>>

RangeReturn ==
    /\ pc = "loop"
    /\ GenNext(gen, cfg.end_date).kind = "return"
    /\ pc' = "done"
    /\ UNCHANGED <<cfg, plan, archive, budget, gen, held, writers, store, metadata, exc, log, ref,
                   fin, fout, ups, ses, wf, cln, wfs, stp>>

NextRange == RangeFetch \/ RangeReturn

SpecRange == InitRange /\ [][NextRange]_vars

\* The hours t with start <= t < end, in increasing order.
HoursOf(start, end) == [i \in 1..(end - start) |-> start + i - 1]

IsPrefix(p, q) == Len(p) <= Len(q) /\ \A i \in 1..Len(p) : p[i] = q[i]

\* C4: for every start < end, on or off midnight, fetch_date_range requests exactly the
\* hours start <= t < end, each once, in increasing order: never an hour outside the
\* range, and when it returns none inside the range is missing.
C4_RangeCoverage ==
    /\ IsPrefix(log.attempted, HoursOf(cfg.start_date, cfg.end_date))
    /\ pc = "done" => log.attempted = HoursOf(cfg.start_date, cfg.end_date)

-----------------------------------------------------------------------------
(* fetch_hour_data called on one response *)

FetchLines ==
    {BlankLine, InvalidLine, JsonLine(NonObject), JsonLine(EvPlain), JsonLine(EvIntId),
     JsonLine(EvOther), JsonLine(EvPush), JsonLine(EvNullRepo), JsonLine(EvStrRepo)}

RepoFilters == {{}, {"a/b"}, {"A/B", "c/d"}}
KindFilters == {{}, {"IssueCommentEvent"}, {"PullRequestEvent", "PushEvent"}}

FetchResponses ==
    {Response("ok", l) : l \in SeqUpTo(FetchLines, MaxLines)}
        \cup {Response(st, <<>>) : st \in {"conn_error", "http_error", "stream_error"}}

InitFetch ==
    /\ IdleSession
    /\ IdleWorkflow
    /\ IdleClean
    /\ IdleExtract
    /\ IdleUpsert
    /\ IdleChain
    /\ IdleStep
    /\ fin \in [response : FetchResponses, repo_names : RepoFilters, event_types : KindFilters]
    /\ fout = [done |-> FALSE, exc |-> "", events |-> <<>>]

CallFetchHourData ==
    /\ ~fout.done
    /\ LET r == fetch_hour_data(fin.response, fin.repo_names, fin.event_types)
       IN  fout' = [done |-> TRUE, exc |-> r.exc, events |-> r.events]
    /\ UNCHANGED <<fin, ups, ses, wf, cln, wfs, stp>>
    /\ UNCHANGED extractVars

NextFetch == CallFetchHourData

SpecFetch == InitFetch /\ [][NextFetch]_vars

\* The values of the lines that json.loads decodes, in source order.
RECURSIVE Decoded(_)
Decoded(lines) ==
    IF lines = <<>> THEN <<>>
    ELSE IF Head(lines).raw = "json" THEN <<Head(lines).value>> \o Decoded(Tail(lines))
    ELSE Decoded(Tail(lines))

\* The two filters as the contract states them.
PassesRepoFilter(event, names) ==
    names = {} \/ \E n \in names : Lower(n) = Lower(RepoNameOf(event))
PassesKindFilter(event, kinds) == kinds = {} \/ event.type \in kinds

RECURSIVE Passing(_, _, _)
Passing(events, names, kinds) ==
    IF events = <<>> THEN <<>>
    ELSE (IF PassesRepoFilter(Head(events), names) /\ PassesKindFilter(Head(events), kinds)
          THEN <<Head(events)>> ELSE <<>>) \o Passing(Tail(events), names, kinds)

\* C7: when fetch_hour_data returns, the list is exactly the decoded records, in source
\* order, that pass the repository filter (case-insensitive, empty passes all) and the
\* kind filter (exact, empty passes all); with both empty it is every decoded record.
C7_FetchHourResult ==
    (fout.done /\ fout.exc = "") =>
        /\ fout.events = Passing(Decoded(fin.response.lines), fin.repo_names, fin.event_types)
        /\ (fin.repo_names = {} /\ fin.event_types = {}) =>
               fout.events = Decoded(fin.response.lines)

\* A call returned with a record kept through a case-insensitive repository match while
\* another decoded record and a malformed line were left out.
C7_Witness ==
    /\ fout.done /\ fout.exc = ""
    /\ fin.repo_names # {}
    /\ \E i \in 1..Len(fout.events) : RepoNameOf(fout.events[i]) \notin fin.repo_names
    /\ Len(fout.events) < Len(fin.response.lines)

\* C6: a single malformed or oddly shaped record never makes fetch_hour_data raise: on a
\* response that was transported intact the call returns.
C6_RecordNeverRaises == (fout.done /\ fin.response.status = "ok") => fout.exc = ""

-----------------------------------------------------------------------------
(* One StreamingWriter session on an empty database, given batches A and B in any order *)

UpsertEvents == {EvPlain, EvIntId, EvOther, EvNoId, EvPullNullComment}

InitUpsert ==
    /\ IdleSession
    /\ IdleWorkflow
    /\ IdleClean
    /\ IdleExtract
    /\ IdleFetch
    /\ IdleChain
    /\ IdleStep
    /\ \E A \in SeqUpTo(UpsertEvents, MaxBatch), B \in SeqUpTo(UpsertEvents, MaxBatch) :
           ups = [A |-> A, B |-> B, calls |-> 0, used |-> {}, first_call |-> "",
                  w |-> NewWriter(<<>>), db |-> <<>>, first |-> <<>>,
                  latest |-> {}, failed |-> FALSE]

\* For each id, the record given last: what is known after the records of one more
\* batch were given in order (records without id are not counted).
RECURSIVE LatestAfter(_, _)
LatestAfter(latest, batch) ==
    IF batch = <<>> THEN latest
    ELSE LET e == Head(batch)
             Others == {p \in latest : p.id # StrId(e.id)}
         IN  LatestAfter((IF StrId(e.id) = "" THEN latest
                          ELSE Others \cup {[id |-> StrId(e.id), event |-> e]}),
                         Tail(batch))

\* One append_events call with batch A or B; first keeps the table after the first call,
\* latest the record given last for each id, failed whether a call raised.
Call(name, batch) ==
    /\ ups.calls < MaxCalls
    /\ LET r == append_events(ups.w, ups.db, batch)
       IN  ups' = [ups EXCEPT !.calls = @ + 1, !.used = @ \cup {name},
                              !.first_call = IF ups.calls = 0 THEN name ELSE @,
                              !.w = r.w, !.db = r.db,
                              !.latest = LatestAfter(@, batch),
                              !.failed = @ \/ r.exc # "",
                              !.first = IF ups.calls = 0
                                        THEN [view |-> ViewOf(r.w, r.db), db |-> r.db] ELSE @]
    /\ UNCHANGED <<fin, fout, ses, wf, cln, wfs, stp>>
    /\ UNCHANGED extractVars

AppendA == Call("A", ups.A)
AppendB == Call("B", ups.B)

NextUpsert == AppendA \/ AppendB

SpecUpsert == InitUpsert /\ [][NextUpsert]_vars

\* C2: on an initially empty events table, append_events with a batch twice (or more
\* often) leaves the same row count and the same rows as calling it once.
C2_UpsertIdempotent ==
    (ups.calls >= 2 /\ Cardinality(ups.used) = 1) =>
        /\ SameTable(ViewOf(ups.w, ups.db), ups.first.view)
        /\ SameTable(ups.db, ups.first.db)

\* The same batch of two records was appended twice and rows were committed.
C2_Witness ==
    /\ ups.calls = 2 /\ ups.used = {"A"}
    /\ Len(ups.A) >= 2
    /\ ups.db # <<>>

\* The table after A then B on an empty table.
TableAfterAB ==
    AppendLoop(AppendLoop(<<>>, ups.A, 0).table, ups.B, 0).table

BothApplied == ups.used = {"A", "B"}

\* C3 as claimed: every sequence of calls that applies A and B (in either order, with
\* repetitions) ends in the table that A then B gives.
C3_AnyOrderSameState ==
    BothApplied => SameTable(ViewOf(ups.w, ups.db), TableAfterAB)

\* Records of the two batches that share a string-coerced id are identical.
SameIdSameContent ==
    LET all == ups.A \o ups.B
    IN  \A i, j \in 1..Len(all) :
            (StrId(all[i].id) # "" /\ StrId(all[i].id) = StrId(all[j].id)) => all[i] = all[j]

\* C3 amended: when records sharing an id are identical, every order and repetition of A
\* and B leaves the session with the same events table.
C3_AnyOrderSameStateIfConsistent ==
    (BothApplied /\ SameIdSameContent) => SameTable(ViewOf(ups.w, ups.db), TableAfterAB)

\* B was upserted before A, a batch was repeated, and the batches share an id.
C3_Witness ==
    /\ ups.calls = 3 /\ ups.first_call = "B" /\ BothApplied /\ SameIdSameContent
    /\ \E i \in 1..Len(ups.A), j \in 1..Len(ups.B) :
           StrId(ups.A[i].id) # "" /\ StrId(ups.A[i].id) = StrId(ups.B[j].id)
    /\ ups.A # ups.B
    /\ Len(ups.db) >= 2

\* C26: after any sequence of append_events calls that all returned, the events table has
\* exactly one row for each id given so far, and that row holds the record that was given
\* last with that string-coerced id, in an earlier call or earlier in the same batch.
C26_LastWriteWins ==
    ~ups.failed =>
        /\ IdSet(ups.db) = {p.id : p \in ups.latest}
        /\ Len(ups.db) = Cardinality(IdSet(ups.db))
        /\ \A i \in 1..Len(ups.db) :
               [id |-> ups.db[i].id, event |-> ups.db[i].event_data] \in ups.latest
        /\ ~ups.w.txn

\* One batch held two different records with the same coerced id, and a later call gave
\* a third version: the row holds the last.
C26_Witness ==
    /\ ~ups.failed /\ ups.calls >= 2
    /\ ups.A = <<EvPlain, EvIntId>> /\ ups.B = <<EvPlain>> /\ ups.first_call = "A"
    /\ ups.db = <<RowOf(EvPlain)>>

\* Within one batch the later of two records with the same coerced id is the one stored.
C26_WitnessSameBatch ==
    /\ ~ups.failed /\ ups.calls = 1
    /\ ups.A = <<EvPlain, EvIntId>> /\ ups.first_call = "A"
    /\ ups.db = <<RowOf(EvIntId)>>

-----------------------------------------------------------------------------
(* One StreamingWriter session on a database that may already hold rows: *)
(* __init__, any number of append_events calls, then finalize             *)

\* A finalize that recreates the events table before it closes.
finalize_recreating(w, db) ==
    [w |-> [w EXCEPT !.conn = "closed", !.txn = FALSE, !.view = <<>>],
     db |-> <<>>,
     meta |-> FinalizeMeta([w |-> w, key |-> "extraction_metadata"])]

\* StreamingWriter.finalize on session w over the committed table db: the metadata row is
\* written, the commit makes whatever the connection still held uncommitted durable, and
\* the connection is closed. [w, db, meta]
finalize(w, db) ==
    [w |-> [w EXCEPT !.conn = "closed", !.txn = FALSE, !.view = <<>>],
     db |-> ViewOf(w, db),
     meta |-> FinalizeMeta([w |-> w, key |-> "extraction_metadata"])]

SessionEvents == {EvPlain, EvIntId, EvNoId, EvNullId, EvEmptyId, EvNullComment}

\* Events tables left by earlier runs.
EarlierTables == {<<>>, <<RowOf(EvPlain)>>, <<RowOf(EvOther), RowOf(EvPlain)>>}

\* calls: append_events calls so far; failed: some call raised;
\* prev_count, only_present: the count before the last call and whether every record of
\* that call had an id already in the table; finalized: finalize was called; seen, before:
\* the table as the session read it, and the committed table, just before finalize.
InitSession ==
    /\ IdleExtract
    /\ IdleFetch
    /\ IdleUpsert
    /\ IdleWorkflow
    /\ IdleClean
    /\ IdleChain
    /\ IdleStep
    /\ \E table \in EarlierTables :
           ses = [w |-> NewWriter(table), db |-> table, meta |-> <<>>, calls |-> 0,
                  failed |-> FALSE, prev_count |-> 0, only_present |-> FALSE,
                  finalized |-> FALSE, seen |-> <<>>, before |-> <<>>]

SessionAppend ==
    /\ ses.w.conn = "open"
    /\ ses.calls < MaxCalls
    /\ \E batch \in SeqUpTo(SessionEvents, MaxBatch) :
           LET r == append_events(ses.w, ses.db, batch)
               present == {ses.db[i].id : i \in 1..Len(ses.db)}
           IN  ses' = [ses EXCEPT !.w = r.w, !.db = r.db, !.calls = @ + 1,
                                  !.failed = @ \/ r.exc # "",
                                  !.prev_count = ses.w.count,
                                  !.only_present =
                                      /\ batch # <<>>
                                      /\ \A i \in 1..Len(batch) : StrId(batch[i].id) \in present]
    /\ UNCHANGED <<fin, fout, ups, wf, cln, wfs, stp>>
    /\ UNCHANGED extractVars

SessionFinalize ==
    /\ ses.w.conn = "open"
    /\ LET r == finalize(ses.w, ses.db)
       IN  ses' = [ses EXCEPT !.w = r.w, !.db = r.db, !.meta = Append(@, r.meta),
                              !.finalized = TRUE,
                              !.seen = ViewOf(ses.w, ses.db), !.before = ses.db]
    /\ UNCHANGED <<fin, fout, ups, wf, cln, wfs, stp>>
    /\ UNCHANGED extractVars

NextSession == SessionAppend \/ SessionFinalize

SpecSession == InitSession /\ [][NextSession]_vars

\* The record has no id: the key is missing, or its value is null or the empty string.
HasNoId(e) == e.id.t \in {"absent", "null"} \/ e.id.s = ""

\* C12: after any sequence of upserts no row of the events table stems from a record
\* whose id is missing, null or the empty string.
C12_NoRowWithoutId ==
    \A i \in 1..Len(ViewOf(ses.w, ses.db)) : ~HasNoId(ViewOf(ses.w, ses.db)[i].event_data)

C14_FinalizeFrame ==
    ses.finalized =>
        /\ ses.w.conn = "closed"
        /\ ses.meta = <<[record_count |-> ses.w.count, writer |-> "extraction_metadata"]>>
        /\ ses.db = ses.seen
        /\ ~ses.failed => ses.db = ses.before

\* finalize after two appended batches on a table that held rows before the session.
C14_Witness ==
    /\ ses.finalized /\ ses.calls >= 2 /\ ~ses.failed
    /\ ses.w.initial_count >= 1 /\ ses.w.count >= 1

\* finalize on a session that appended nothing.
C14_WitnessNoBatch == ses.finalized /\ ses.calls = 0 /\ ses.db # <<>>

-----------------------------------------------------------------------------
(* preprocessing/text_cleaner.py on texts given as sequences of characters *)

UpperCase == <<"A", "B", "C", "D", "E", "F", "G", "H", "I", "J", "K", "L", "M", "N", "O", "P", "Q", "R", "S", "T", "U", "V", "W", "X", "Y", "Z">>
LowerCase == <<"a", "b", "c", "d", "e", "f", "g", "h", "i", "j", "k", "l", "m", "n", "o", "p", "q", "r", "s", "t", "u", "v", "w", "x", "y", "z">>
Digits == {"0", "1", "2", "3", "4", "5", "6", "7", "8", "9"}

\* str.lower() on one character
LowerChar(c) ==
    IF \E i \in 1..Len(UpperCase) : UpperCase[i] = c
    THEN LowerCase[CHOOSE i \in 1..Len(UpperCase) : UpperCase[i] = c]
    ELSE c

\* lowercase(text): text.lower()
lowercase(text) == [i \in 1..Len(text) |-> LowerChar(text[i])]

\* the word characters of the regular expressions
WordChars ==
    {UpperCase[i] : i \in 1..Len(UpperCase)} \cup {LowerCase[i] : i \in 1..Len(LowerCase)}
        \cup Digits \cup {"_"}

WordChar(c) == c \in WordChars

\* text[i:].startswith(pat)
StartsWith(text, i, pat) ==
    /\ i >= 1 /\ i + Len(pat) - 1 <= Len(text)
    /\ SubSeq(text, i, i + Len(pat) - 1) = pat

\* The first position >= i where pat occurs in text, 0 when there is none.
Find(text, i, pat) ==
    IF \E k \in i..Len(text) : StartsWith(text, k, pat)
    THEN CHOOSE k \in i..Len(text) :
             StartsWith(text, k, pat) /\ \A j \in i..(k - 1) : ~StartsWith(text, j, pat)
    ELSE 0

\* The first position >= i that holds no word character (Len(text) + 1 when none).
RECURSIVE SkipWord(_, _)
SkipWord(text, i) ==
    IF i <= Len(text) /\ WordChar(text[i]) THEN SkipWord(text, i + 1) ELSE i

\* The backquote character is written "BQ".
Backquote == "BQ"

Fence == <<Backquote, Backquote, Backquote>>

\* Where a match of _CODE_BLOCK_RE that starts at i ends, 0 when none starts there: three
\* backquotes, word characters, a newline, then anything up to the next three backquotes.
CodeBlockEnd(text, i) ==
    IF ~StartsWith(text, i, Fence) THEN 0
    ELSE
        LET j == SkipWord(text, i + 3)
        IN  IF ~StartsWith(text, j, <<"\n">>) THEN 0
            ELSE IF Find(text, j + 1, Fence) = 0 THEN 0
            ELSE Find(text, j + 1, Fence) + 2

RECURSIVE SubCodeBlocks(_, _)
SubCodeBlocks(text, i) ==
    IF i > Len(text) THEN <<>>
    ELSE IF CodeBlockEnd(text, i) > 0
    THEN <<" ">> \o SubCodeBlocks(text, CodeBlockEnd(text, i) + 1)
    ELSE <<text[i]>> \o SubCodeBlocks(text, i + 1)

strip_code_blocks(text) == IF text = <<>> THEN <<>> ELSE SubCodeBlocks(text, 1)

\* Where a match of _IMAGE_MD_RE that starts at i ends, 0 when none: "![", anything but
\* "]", "](", anything but ")", ")".
ImageMdEnd(text, i) ==
    IF ~StartsWith(text, i, <<"!", "[">>) THEN 0
    ELSE
        LET k == Find(text, i + 2, <<"]">>)
        IN  IF k = 0 \/ ~StartsWith(text, k + 1, <<"(">>) THEN 0
            ELSE Find(text, k + 2, <<")">>)

\* Where a match of _IMAGE_LINK_RE that starts at i ends, 0 when none: "[image](" in any
\* case, anything but ")", ")".
ImageLinkEnd(text, i) ==
    IF ~StartsWith(lowercase(text), i, <<"[", "i", "m", "a", "g", "e", "]", "(">>) THEN 0
    ELSE Find(text, i + 8, <<")">>)

RECURSIVE SubImageMd(_, _)
SubImageMd(text, i) ==
    IF i > Len(text) THEN <<>>
    ELSE IF ImageMdEnd(text, i) > 0
    THEN <<" ">> \o SubImageMd(text, ImageMdEnd(text, i) + 1)
    ELSE <<text[i]>> \o SubImageMd(text, i + 1)

RECURSIVE SubImageLink(_, _)
SubImageLink(text, i) ==
    IF i > Len(text) THEN <<>>
    ELSE IF ImageLinkEnd(text, i) > 0
    THEN <<" ">> \o SubImageLink(text, ImageLinkEnd(text, i) + 1)
    ELSE <<text[i]>> \o SubImageLink(text, i + 1)

\* strip_images of text_cleaner.py
strip_images_text(text) ==
    IF text = <<>> THEN <<>> ELSE SubImageLink(SubImageMd(text, 1), 1)

\* The first position from i on of a character in S, 0 when there is none.
RECURSIVE FindIn(_, _, _)
FindIn(text, i, S) ==
    IF i > Len(text) THEN 0 ELSE IF text[i] \in S THEN i ELSE FindIn(text, i + 1, S)

\* str.splitlines(): the lines without their newline; no empty last line. Of its line
\* boundaries the texts of the model can hold "\n", "\r" and "\r\n" (one boundary).
RECURSIVE SplitLines(_)
SplitLines(text) ==
    IF text = <<>> THEN <<>>
    ELSE
        LET k == FindIn(text, 1, {"\n", "\r"})
            crlf == k > 0 /\ k < Len(text) /\ text[k] = "\r" /\ text[k + 1] = "\n"
        IN  IF k = 0 THEN <<text>>
            ELSE <<SubSeq(text, 1, k - 1)>>
                     \o SplitLines(SubSeq(text, (IF crlf THEN k + 2 ELSE k + 1), Len(text)))

\* sep.join(parts)
RECURSIVE Join(_, _)
Join(parts, sep) ==
    IF parts = <<>> THEN <<>>
    ELSE IF Len(parts) = 1 THEN parts[1]
    ELSE parts[1] \o sep \o Join(Tail(parts), sep)

\* _DIFF_LINE_RE.match(line): the pattern on the line as it is, not on its trimmed form
IsDiffLineUntrimmed(line) == line # <<>> /\ Head(line) \in {"+", "-"}

\* _DIFF_LINE_RE.match(line.strip())
IsDiffLine(line) == Strip(line) # <<>> /\ Head(Strip(line)) \in {"+", "-"}

strip_diff_snippets(text) ==
    LET NotDiff(line) == ~IsDiffLine(line)
    IN  IF text = <<>> THEN <<>> ELSE Join(SelectSeq(SplitLines(text), NotDiff), <<"\n">>)

\* The maximal runs of characters that are in S (member = TRUE) or not in S (member =
\* FALSE), in order; cur is the run being read.
RECURSIVE Runs(_, _, _, _)
Runs(text, cur, S, member) ==
    IF text = <<>> THEN (IF cur = <<>> THEN <<>> ELSE <<cur>>)
    ELSE IF (Head(text) \in S) = member
    THEN Runs(Tail(text), Append(cur, Head(text)), S, member)
    ELSE (IF cur = <<>> THEN <<>> ELSE <<cur>>) \o Runs(Tail(text), <<>>, S, member)

\* str.split()
SplitWhitespace(text) == Runs(text, <<>>, Whitespace, FALSE)

\* tokenize(text): _WORD_RE.findall(text.lower())
tokenize(text) == IF text = <<>> THEN <<>> ELSE Runs(lowercase(text), <<>>, WordChars, TRUE)

\* " ".join(t.split()).strip() without lowercase()
CollapseOnly(text) == Strip(Join(SplitWhitespace(text), <<" ">>))

\* " ".join(lowercase(t).split()).strip()
CollapseLower(text) == Strip(Join(SplitWhitespace(lowercase(text)), <<" ">>))

-----------------------------------------------------------------------------
(* preprocessing/filters.py *)

BOT_CI_PATTERNS ==
    <<<<"[", "b", "o", "t", "]">>,
      <<"b", "o", "t">>,
      <<"g", "i", "t", "h", "u", "b", "-", "a", "c", "t", "i", "o", "n", "s">>,
      <<"d", "e", "p", "e", "n", "d", "a", "b", "o", "t">>,
      <<"d", "e", "p", "e", "n", "d", "a", "b", "o", "t", "[", "b", "o", "t", "]">>,
      <<"a", "c", "t", "i", "o", "n", "s", "-", "u", "s", "e", "r">>,
      <<"g", "r", "e", "e", "n", "k", "e", "e", "p", "e", "r">>,
      <<"r", "e", "n", "o", "v", "a", "t", "e">>,
      <<"r", "e", "n", "o", "v", "a", "t", "e", "[", "b", "o", "t", "]">>,
      <<"s", "t", "a", "l", "e">>,
      <<"s", "t", "a", "l", "e", "[", "b", "o", "t", "]">>,
      <<"c", "i">>,
      <<"t", "r", "a", "v", "i", "s">>,
      <<"c", "i", "r", "c", "l", "e", "c", "i">>,
      <<"c", "o", "d", "e", "c", "o", "v">>>>

\* pattern in login
Contains(text, pat) == Find(text, 1, pat) > 0 \/ pat = <<>>

\* The characters of the actor logins of the model.
LoginText(login) ==
    CASE login = "alice" -> <<"a", "l", "i", "c", "e">>
      [] login = "Renovate" -> <<"R", "e", "n", "o", "v", "a", "t", "e">>
      [] login = "marcia" -> <<"m", "a", "r", "c", "i", "a">>
      [] OTHER -> <<>>

\* A match of the vocabulary on the login as spelled, without lower()
is_bot_or_ci_as_spelled(actor) ==
    LET login == LoginText(OrElse(IF actor.shape = "obj" THEN actor.login ELSE Absent, ""))
    IN  login = <<>> \/ \E i \in 1..Len(BOT_CI_PATTERNS) : Contains(login, BOT_CI_PATTERNS[i])

\* is_bot_or_ci on (event.get("actor") or {})
is_bot_or_ci(actor) ==
    LET login == lowercase(LoginText(OrElse(IF actor.shape = "obj" THEN actor.login ELSE Absent, "")))
    IN  login = <<>> \/ \E i \in 1..Len(BOT_CI_PATTERNS) : Contains(login, BOT_CI_PATTERNS[i])

-----------------------------------------------------------------------------
(* preprocessing/workflow.py: Context, the steps and Workflow.run *)

\* The dict a context carries. form "event": the record as read (src); "merged": src plus
\* cleaned_text and tokens (after finalize); "slim": the seven fields of slim_output, of
\* which id, type and created_at are kept in src.
EventRecord(e) ==
    [form |-> "event", src |-> e, cleaned_text |-> TAbsent, tokens |-> <<>>,
     repo |-> Absent, author_association |-> Absent]

\* A dataclass whose tokens default is one list shared by every context: a new context
\* has the tokens the last one was left with.
ContextSharingTokens(record) ==
    [event |-> record, text |-> TNull, cleaned_text |-> TNull, tokens |-> wf.ctx.tokens]

\* Context(event=record): text and cleaned_text None, tokens a new empty list
Context(record) == [event |-> record, text |-> TNull, cleaned_text |-> TNull, tokens |-> <<>>]

\* t or ""
TextOr(t) == IF t.t = "str" THEN t.s ELSE <<>>

\* a or b or ""
FirstText(a, b) == IF TextOr(a) # <<>> THEN a.s ELSE TextOr(b)

MinTokens == 2

\* dict.get(key) on a key that may be missing: a missing key reads as None
GetOrNone(v) == IF v = Absent THEN Null ELSE v

\* What .get reads from a slim record: id, type and created_at; "repo" is a string.
SlimView(ev) ==
    [json |-> "object",
     id |-> IF ev.id.t = "absent" THEN IdNull ELSE ev.id,
     type |-> GetOrNone(ev.type),
     created_at |-> GetOrNone(ev.created_at),
     actor |-> NoActor,
     repo |-> [shape |-> "str", name |-> Absent],
     payload |-> NoPayload]

\* repo = ev.get("repo") or {}; repo.get("name", "") if isinstance(repo, dict) else ""
SlimRepoName(ev) ==
    IF ev.repo.shape = "obj" /\ ev.repo.name # Absent THEN ev.repo.name ELSE ""

\* An association read off payload.comment only.
get_author_association_of_comment(ev) ==
    LET payload == IF ev.payload.shape = "obj" THEN ev.payload ELSE NoPayload
    IN  AssociationChain(<<payload.comment>>)

\* _get_author_association: the same chain as storage._extract_author_association
get_author_association(ev) == extract_author_association(ev)

Continue(ctx) == [kind |-> "ctx", ctx |-> ctx, exc |-> ""]
Drop(ctx) == [kind |-> "drop", ctx |-> ctx, exc |-> ""]
Raise(ctx, e) == [kind |-> "raise", ctx |-> ctx, exc |-> e]

filter_bot(ctx) == IF is_bot_or_ci(ctx.event.src.actor) THEN Drop(ctx) ELSE Continue(ctx)

extract_text(ctx) ==
    LET e == from_dict(ctx.event.src)
        t == extract_text_content(ctx.event.src)
    IN  IF e \in {"ValueError", "KeyError"} THEN Drop([ctx EXCEPT !.text = TNull])
        ELSE IF e # "" THEN Raise(ctx, e)
        ELSE IF t.exc # "" THEN Raise(ctx, t.exc)
        ELSE IF Strip(TextOr(t.text)) # <<>> THEN Continue([ctx EXCEPT !.text = t.text])
        ELSE Drop([ctx EXCEPT !.text = t.text])

strip_code(ctx) == Continue([ctx EXCEPT !.cleaned_text = TStr(strip_code_blocks(TextOr(ctx.text)))])

strip_images(ctx) ==
    Continue([ctx EXCEPT !.cleaned_text = TStr(strip_images_text(FirstText(ctx.cleaned_text, ctx.text)))])

strip_diff(ctx) ==
    Continue([ctx EXCEPT !.cleaned_text = TStr(strip_diff_snippets(FirstText(ctx.cleaned_text, ctx.text)))])

normalize_lowercase(ctx) ==
    Continue([ctx EXCEPT !.cleaned_text = TStr(CollapseLower(FirstText(ctx.cleaned_text, ctx.text)))])

tokenize_text(ctx) == Continue([ctx EXCEPT !.tokens = tokenize(TextOr(ctx.cleaned_text))])

\* A threshold filter that keeps only records with more tokens than the threshold.
filter_min_tokens_strict(ctx, min_tokens) ==
    IF Len(ctx.tokens) <= min_tokens THEN Drop(ctx) ELSE Continue(ctx)

filter_min_tokens(ctx, min_tokens) ==
    IF Len(ctx.tokens) < min_tokens THEN Drop(ctx) ELSE Continue(ctx)

\* the step `finalize` of workflow.py
finalize_step(ctx) ==
    Continue([ctx EXCEPT !.event = [@ EXCEPT !.form = IF @ = "slim" THEN "slim" ELSE "merged",
                                             !.cleaned_text = TStr(TextOr(ctx.cleaned_text)),
                                             !.tokens = ctx.tokens]])

slim_output(ctx) ==
    LET ev == ctx.event.src
        a == get_author_association(ev)
    IN  IF a.exc # "" THEN Raise(ctx, a.exc)
        ELSE Continue([ctx EXCEPT !.event =
                 [form |-> "slim",
                  src |-> SlimView(ev),
                  cleaned_text |-> TStr(FirstText(ctx.cleaned_text, ctx.event.cleaned_text)),
                  tokens |-> IF ctx.tokens # <<>> THEN ctx.tokens ELSE ctx.event.tokens,
                  repo |-> SlimRepoName(ev),
                  author_association |-> a.value]])

\* Calling the step of that name: [kind, ctx, exc] with kind "ctx", "drop" or "raise".
ApplyStep(name, ctx) ==
    CASE name = "filter_bot" -> filter_bot(ctx)
      [] name = "extract_text" -> extract_text(ctx)
      [] name = "strip_code" -> strip_code(ctx)
      [] name = "strip_images" -> strip_images(ctx)
      [] name = "strip_diff" -> strip_diff(ctx)
      [] name = "normalize_lowercase" -> normalize_lowercase(ctx)
      [] name = "tokenize_text" -> tokenize_text(ctx)
      [] name = "filter_min_tokens" -> filter_min_tokens(ctx, MinTokens)
      [] name = "finalize" -> finalize_step(ctx)
      [] name = "slim_output" -> slim_output(ctx)

default_workflow ==
    <<"filter_bot", "extract_text", "strip_code", "strip_images", "strip_diff",
      "normalize_lowercase", "tokenize_text", "filter_min_tokens", "finalize", "slim_output">>

\* A loop that goes on with the context it had when a step returns None.
AfterStepBestEffort(kind) == IF kind = "raise" THEN "raise" ELSE ""

\* The loop of Workflow.run after a step returned: "" to go on with the next step,
\* "drop" to return None at once, "raise" when the step's exception leaves run.
AfterStep(kind) == IF kind = "ctx" THEN "" ELSE kind

\* The one element of a singleton set.
The(S) == CHOOSE x \in S : TRUE

\* Workflow.run from step i on: [result, out, exc] with result "return", "drop" or "raise".
\* (r ranges over a singleton so that the step is called once.)
RECURSIVE RunFrom(_, _, _)
RunFrom(steps, i, ctx) ==
    IF i > Len(steps) THEN [result |-> "return", out |-> ctx.event, exc |-> ""]
    ELSE
        The({IF AfterStep(r.kind) = ""
             THEN RunFrom(steps, i + 1, IF r.kind = "ctx" THEN r.ctx ELSE ctx)
             ELSE [result |-> AfterStep(r.kind), out |-> ctx.event, exc |-> r.exc]
                : r \in {ApplyStep(steps[i], ctx)}})

\* Workflow.run(event)
run(steps, event) == RunFrom(steps, 1, Context(EventRecord(event)))

-----------------------------------------------------------------------------
(* Records given to the workflow and to the cleaning runs *)

\* an ordinary two-word comment
EvKeep == [BaseEvent EXCEPT !.id = IdStr("11"), !.payload.comment.body = TStr(<<"G", "o", "o", "d", " ", "f", "i", "x">>)]
\* a comment that cleans to a single token
EvLgtm == [BaseEvent EXCEPT !.id = IdStr("12"), !.payload.comment.body = TStr(<<"L", "G", "T", "M">>)]
\* a comment by a bot actor
EvBot == [EvKeep EXCEPT !.id = IdStr("13"), !.actor = Actor("Renovate")]
\* a comment with a diff line
EvDiff ==
    [BaseEvent EXCEPT !.id = IdStr("2"),
                      !.payload.comment.body = TStr(<<"S", "e", "e", " ", "f", "i", "x", "\n", "+", "x", " ", "y">>)]
\* a review event with "review": null whose comment object carries the association
EvReviewNull ==
    [BaseEvent EXCEPT !.id = IdStr("15"), !.type = "PullRequestReviewEvent",
                      !.payload.review = NullSub]

\* an ordinary comment on a record with "id": null
EvKeepNullId == [EvKeep EXCEPT !.id = IdNull]
\* the id of EvKeep as an integer, on a record with a one-word comment
EvLgtmInt == [EvLgtm EXCEPT !.id = IdInt("11")]

-----------------------------------------------------------------------------
(* Workflow.run on one record, one step at a time *)

StepNames ==
    {"filter_bot", "extract_text", "strip_diff", "tokenize_text", "filter_min_tokens",
     "slim_output"}

\* A workflow of exported steps that slims the record before it tokenizes.
TokenizeLast == <<"extract_text", "strip_diff", "slim_output", "tokenize_text">>

\* a comment whose lines are all diff lines
EvDiffOnly ==
    [BaseEvent EXCEPT !.id = IdStr("31"),
                      !.payload.comment.body = TStr(<<"+", "a", " ", "b", "\n", "-", "c", " ", "d">>)]

WorkflowEvents == {EvKeep, EvLgtm, EvBot, EvDiff, EvReviewNull, EvNoText, EvPush, EvDiffOnly}

\* Before run is called there is no context.
NoContext == [event |-> [form |-> "none"], text |-> TNull, cleaned_text |-> TNull, tokens |-> <<>>]

\* What a call of run came to.
Ended(w) == [result |-> w.result, out |-> w.out]

\* given: the record as the caller built it; event: the caller's record object; runs:
\* calls of run so far; i: index of the next step (0 outside a call); invoked: the steps
\* called so far in this call; signals: what each of them returned; result: "" while run
\* is in its loop, then "return", "drop" or "raise"; first: what the first call came to.
InitWorkflow ==
    /\ IdleExtract
    /\ IdleFetch
    /\ IdleUpsert
    /\ IdleSession
    /\ IdleClean
    /\ IdleChain
    /\ IdleStep
    /\ \E steps \in SeqUpTo(StepNames, MaxSteps) \cup {default_workflow, TokenizeLast},
          event \in WorkflowEvents :
           wf = [steps |-> steps, given |-> event, event |-> event, runs |-> 0, i |-> 0,
                 ctx |-> NoContext, invoked |-> <<>>, signals |-> <<>>,
                 result |-> "", out |-> EventRecord(event),
                 first |-> [result |-> "", out |-> EventRecord(event)]]

\* workflow.run(event) is called, the first time or again on the same record object:
\* ctx = Context(event=dict(event))
CallRun ==
    /\ wf.i = 0 \/ wf.result # ""
    /\ wf.runs < MaxRuns
    /\ wf' = [wf EXCEPT !.runs = @ + 1, !.i = 1,
                         !.ctx = Context(EventRecord(wf.event)),
                         !.invoked = <<>>, !.signals = <<>>, !.result = "",
                         !.first = IF wf.runs = 1 THEN Ended(wf) ELSE @]
    /\ UNCHANGED <<fin, fout, ups, ses, cln, wfs, stp>>
    /\ UNCHANGED extractVars

\* One iteration of the for loop: the next step is called with the context.
InvokeStep ==
    /\ wf.result = ""
    /\ wf.i >= 1
    /\ wf.i <= Len(wf.steps)
    /\ LET r == ApplyStep(wf.steps[wf.i], wf.ctx)
       IN  wf' = [wf EXCEPT !.i = @ + 1,
                            !.ctx = IF r.kind = "ctx" THEN r.ctx ELSE @,
                            !.invoked = Append(@, wf.steps[wf.i]),
                            !.signals = Append(@, r.kind),
                            !.result = AfterStep(r.kind)]
    /\ UNCHANGED <<fin, fout, ups, ses, cln, wfs, stp>>
    /\ UNCHANGED extractVars

\* The loop is over: run returns ctx.event.
ReturnEvent ==
    /\ wf.result = ""
    /\ wf.i >= 1
    /\ wf.i > Len(wf.steps)
    /\ wf' = [wf EXCEPT !.result = "return", !.out = wf.ctx.event]
    /\ UNCHANGED <<fin, fout, ups, ses, cln, wfs, stp>>
    /\ UNCHANGED extractVars

NextWorkflow == CallRun \/ InvokeStep \/ ReturnEvent

SpecWorkflow == InitWorkflow /\ [][NextWorkflow]_vars

C15_WitnessKept ==
    /\ wf.steps = default_workflow /\ wf.result = "return" /\ wf.out.form = "slim"
    /\ Len(wf.out.tokens) >= 2

------------------------------------------------------------------------\* C21: a second call of run with the same workflow on the same record object ends as
C21_WitnessTokensAfter ==
    /\ wf.runs >= 2 /\ wf.steps = TokenizeLast
    /\ wf.result = "return" /\ wf.out = wf.first.out /\ wf.out.tokens = <<>>
    /\ Len(wf.ctx.tokens) >= 2

-----
(* preprocessing/pipeline.py: clean_db *)

\* eid_key = str(eid) if eid is not None else ""
CleanKey(id) == IF id.t \in {"absent", "null"} THEN "" ELSE id.s

\* str(read_count)
DecimalOf(n) == <<"1", "2", "3", "4", "5", "6", "7", "8", "9">>[n]

\* A loop that takes no id for seen.
IsDuplicateNever(eid_key, seen_ids) == FALSE

\* if eid_key and eid_key in seen_ids
IsDuplicate(eid_key, seen_ids) == eid_key # "" /\ eid_key \in seen_ids

\* The row clean_db writes for the record the workflow returned; binding a dict (the
\* "repo" of a record that is not slim) raises. [exc, row]
CleanedRow(cleaned, eid_key, read_count) ==
    [exc |-> IF cleaned.form # "slim" /\ cleaned.src.repo.shape = "obj"
             THEN "InterfaceError" ELSE "",
     row |-> [id |-> IF eid_key # "" THEN eid_key ELSE DecimalOf(read_count),
              repo |-> OrElse(cleaned.repo, ""),
              created_at |-> OrElse(cleaned.src.created_at, ""),
              type |-> OrElse(cleaned.src.type, ""),
              author_association |-> OrElse(cleaned.author_association, ""),
              actor_login |-> "",
              event_data |-> cleaned]]

\* What a run has when it starts to read: the counters, seen_ids, the destination table
\* as the output connection sees it, and, for the record, the read positions passed to
\* the workflow and those written.
CleanStart(dest) ==
    [exc |-> "", read |-> 0, duplicates |-> 0, written |-> 0, seen |-> {}, dest |-> dest,
     invoked |-> <<>>, writes |-> <<>>]

\* One pass of the for loop over the cursor, on row i: the state after it. workflow is
\* the run method of the Workflow, a function of the record. (w ranges over a singleton
\* so that the workflow runs once.)
CleanOne(workflow, event, i, st) ==
    LET eid_key == CleanKey(event.id)
        st1 == [st EXCEPT !.read = @ + 1]
        st2 == [st1 EXCEPT !.seen = IF eid_key # "" THEN @ \cup {eid_key} ELSE @,
                           !.invoked = Append(@, i)]
    IN  IF event.json # "object" THEN [st1 EXCEPT !.exc = "AttributeError"]
        ELSE IF IsDuplicate(eid_key, st.seen) THEN [st1 EXCEPT !.duplicates = @ + 1]
        ELSE The({IF w.result = "raise" THEN [st2 EXCEPT !.exc = w.exc]
                  ELSE IF w.result = "drop" THEN st2
                  ELSE LET c == CleanedRow(w.out, eid_key, st1.read)
                       IN  IF c.exc # "" THEN [st2 EXCEPT !.exc = c.exc]
                           ELSE [st2 EXCEPT !.dest = InsertOrReplace(@, c.row),
                                            !.written = @ + 1,
                                            !.writes = Append(@, i)]
                     : w \in {workflow[event]}})

\* The for loop over the cursor, from row i on.
RECURSIVE CleanLoop(_, _, _, _)
CleanLoop(workflow, rows, i, st) ==
    IF i > Len(rows) \/ st.exc # "" THEN st
    ELSE The({CleanLoop(workflow, rows, i + 1, next)
                 : next \in {CleanOne(workflow, rows[i].event_data, i, st)}})

\* A cleaning run that empties the destination table before it writes.
clean_db_from_empty(workflow, events, dest) ==
    LET st == CleanLoop(workflow, events, 1, CleanStart(<<>>))
    IN  [exc |-> st.exc, read |-> st.read, duplicates |-> st.duplicates,
         written |-> st.written,
         dest |-> IF st.exc = "" THEN st.dest ELSE dest,
         open |-> st.exc # "",
         invoked |-> st.invoked, writes |-> st.writes]

\* clean_db(workflow, input_path, output_path) on the raw table `events` and the
\* destination table `dest` (the cleaned table of the same database, or the events table
\* of the output database). When the loop raises nothing is committed and the
\* connections stay open. [exc, read, duplicates, written, dest, open, invoked, writes]
clean_db(workflow, events, dest) ==
    LET st == CleanLoop(workflow, events, 1, CleanStart(dest))
    IN  [exc |-> st.exc, read |-> st.read, duplicates |-> st.duplicates,
         written |-> st.written,
         dest |-> IF st.exc = "" THEN st.dest ELSE dest,
         open |-> st.exc # "",
         invoked |-> st.invoked, writes |-> st.writes]

-----------------------------------------------------------------------------
(* Cleaning runs with the default workflow over a raw table, with an extraction run *)
(* that may upsert one more record between two of them                            *)

\* a comment with capitals, an empty line and spaces around
EvSpaced ==
    [BaseEvent EXCEPT !.id = IdStr("32"),
                      !.payload.comment.body = TStr(<<" ", "O", "k", "\n", "\n", "G", "o", " ">>)]

CleanEvents == {EvKeep, EvLgtm, EvBot, EvDiff, EvKeepNullId, EvReviewNull, EvLgtmInt, EvSpaced}

\* Records a later extraction run may upsert: a replacement for a stored id and a new one.
LaterEvents == {EvLgtmInt, EvDiff}

\* The events table after one StreamingWriter session appended the batch.
UpsertTable(batch) == append_events(NewWriter(<<>>), <<>>, batch).db

\* An events table that was not written by append_events: its keys are its own, so two
\* rows may hold records with the same id.
ForeignTable(batch) ==
    [i \in 1..Len(batch) |-> [RowOf(batch[i]) EXCEPT !.id = <<"k1", "k2", "k3", "k4", "k5">>[i]]]

HasRepeatedId(batch) ==
    \E i, j \in 1..Len(batch) :
        i < j /\ CleanKey(batch[i].id) # "" /\ CleanKey(batch[i].id) = CleanKey(batch[j].id)

\* The events tables that hold what append_events wrote and nothing else.
UpsertTables == {UpsertTable(b) : b \in SeqUpTo(CleanEvents, MaxRaw)}

RawTables ==
    UpsertTables
        \cup {ForeignTable(b) : b \in {x \in SeqUpTo(CleanEvents, MaxRaw) : HasRepeatedId(x)}}

\* What clean_db returned, without the table.
Outcome(r) ==
    [exc |-> r.exc, read |-> r.read, duplicates |-> r.duplicates, written |-> r.written,
     open |-> r.open, invoked |-> r.invoked, writes |-> r.writes]

\* Workflow.run of default_workflow() on the records of the model (@@ tabulates it, so
\* that the model checker runs the workflow once for each record).
DefaultRun == [event \in CleanEvents |-> run(default_workflow, event)] @@ <<>>

NoRun ==
    [exc |-> "", read |-> 0, duplicates |-> 0, written |-> 0, open |-> FALSE,
     invoked |-> <<>>, writes |-> <<>>]

\* same_db: the destination is the cleaned table of the input database; events: the raw
\* table; dest: the destination table; runs: cleaning runs so far; last, prev: what the
\* last run and the one before it returned; before: the destination when the last run
\* started; changed: an extraction upserted since the last run; later: the record an
\* extraction upserted after the first run, if any; upserted: the raw table was written
\* by append_events only.
InitClean ==
    /\ IdleExtract
    /\ IdleFetch
    /\ IdleUpsert
    /\ IdleSession
    /\ IdleWorkflow
    /\ IdleChain
    /\ IdleStep
    /\ \E same_db \in BOOLEAN, events \in RawTables :
           cln = [same_db |-> same_db, events |-> events, dest |-> <<>>, runs |-> 0,
                  last |-> NoRun, prev |-> NoRun, before |-> <<>>,
                  changed |-> FALSE, later |-> <<>>,
                  upserted |-> events \in UpsertTables]

\* A choice of the table written that is "events" in either case.
out_table_events(same_db) == "events"

\* out_table: the cleaned table when the output is the input database, else the events
\* table (of the output database).
out_table(same_db) == IF same_db THEN "cleaned" ELSE "events"

\* CleanerPipeline.run / clean_db with the default workflow. The output connection is
\* the input connection when same_db, so the table written is the raw table when it is
\* that connection's events table.
CleanRun ==
    /\ cln.runs < MaxRuns
    /\ LET raw == cln.same_db /\ out_table(cln.same_db) = "events"
           r == clean_db(DefaultRun, cln.events, IF raw THEN cln.events ELSE cln.dest)
       IN  cln' = [cln EXCEPT !.runs = @ + 1,
                              !.events = IF raw THEN r.dest ELSE @,
                              !.dest = IF raw THEN @ ELSE r.dest,
                              !.last = Outcome(r),
                              !.prev = cln.last, !.before = cln.dest, !.changed = FALSE]
    /\ UNCHANGED <<fin, fout, ups, ses, wf, wfs, stp>>
    /\ UNCHANGED extractVars

\* An extraction run between two cleaning runs upserts one record into the raw table.
ExtractionRun ==
    /\ cln.runs >= 1
    /\ cln.later = <<>>
    /\ \E e \in LaterEvents :
           cln' = [cln EXCEPT !.events = append_events(NewWriter(@), @, <<e>>).db,
                              !.changed = TRUE, !.later = <<e>>]
    /\ UNCHANGED <<fin, fout, ups, ses, wf, wfs, stp>>
    /\ UNCHANGED extractVars

NextClean == CleanRun \/ ExtractionRun

SpecClean == InitClean /\ [][NextClean]_vars

\* The record passes every step of the default workflow.
Kept(event) == event.json = "object" /\ DefaultRun[event].result = "return"

\* The slimmed form of a kept record.
Slimmed(event) == DefaultRun[event].out

\* C16: a step exception for one record never makes a cleaning run raise.
C16_StepExceptionNeverAborts == cln.last.exc = ""

\* C17: at the end of each cleaning run every row of the destination table is the slimmed
\* form of a record that is in the raw table now and passes every step of the workflow.
C17_CleanedOnlyIfSourcePasses ==
    (cln.runs >= 1 /\ ~cln.changed) =>
        \A i \in 1..Len(cln.dest) :
            \E j \in 1..Len(cln.events) :
                /\ Kept(cln.events[j].event_data)
                /\ cln.dest[i].event_data = Slimmed(cln.events[j].event_data)

\* Row i of the table holds a record whose non-empty coerced id is that of an earlier row.
Repeats(table, i) ==
    /\ CleanKey(table[i].event_data.id) # ""
    /\ \E j \in 1..(i - 1) : CleanKey(table[j].event_data.id) = CleanKey(table[i].event_data.id)

\* The rows that are first occurrences of their id and that the workflow keeps.
KeptRows(table) ==
    {i \in 1..Len(table) : ~Repeats(table, i) /\ Kept(table[i].event_data)}

\* C18: a cleaning run into an empty destination returns read = the rows of the raw
\* table, duplicates = the rows whose id repeats an earlier row's, written = the
\* first-occurrence records the workflow keeps, and the destination then holds exactly
\* the slimmed forms of those records, one row for each.
C18_CountsAndOutput ==
    (cln.runs >= 1 /\ ~cln.changed /\ cln.last.exc = "" /\ cln.before = <<>>) =>
        /\ cln.last.read = Len(cln.events)
        /\ cln.last.duplicates = Cardinality({i \in 1..Len(cln.events) : Repeats(cln.events, i)})
        /\ cln.last.written = Cardinality(KeptRows(cln.events))
        /\ Len(cln.dest) = Cardinality(KeptRows(cln.events))
        /\ \A i \in KeptRows(cln.events) :
               \E k \in 1..Len(cln.dest) :
                   cln.dest[k].event_data = Slimmed(cln.events[i].event_data)

\* C19: in one cleaning run every row read whose non-empty coerced id is that of a row
\* read earlier is counted in duplicates, is not passed to the workflow and is not
\* written, and no two rows passed to the workflow have the same non-empty id.
C19_ReadTimeDedup ==
    (cln.runs >= 1 /\ ~cln.changed) =>
        LET read == 1..cln.last.read
            Invoked == {cln.last.invoked[k] : k \in 1..Len(cln.last.invoked)}
            Written == {cln.last.writes[k] : k \in 1..Len(cln.last.writes)}
        IN  /\ cln.last.duplicates = Cardinality({i \in read : Repeats(cln.events, i)})
            /\ \A i \in read : Repeats(cln.events, i) => i \notin Invoked /\ i \notin Written
            /\ Cardinality(Invoked) = Len(cln.last.invoked)
            /\ \A i, j \in Invoked :
                   (i # j /\ CleanKey(cln.events[i].event_data.id) # "")
                       => CleanKey(cln.events[i].event_data.id) # CleanKey(cln.events[j].event_data.id)
            /\ Written \subseteq Invoked

\* A run read a row whose id, an integer, is the string id of an earlier row, counted it
\* and went on to write a later row.
C19_Witness ==
    /\ cln.runs >= 1 /\ ~cln.changed /\ cln.last.exc = ""
    /\ cln.last.duplicates >= 1
    /\ \E i \in 1..Len(cln.events) :
           /\ Repeats(cln.events, i)
           /\ cln.events[i].event_data.id.t = "int"
           /\ \E k \in 1..Len(cln.last.writes) : cln.last.writes[k] > i

\* C20: two cleaning runs in a row over an unchanged raw table return the same counts,
\* and the second leaves the destination with the rows and content the first left.
C20_Rerunnable ==
    (cln.runs >= 2 /\ ~cln.changed /\ cln.later = <<>>
        /\ cln.last.exc = "" /\ cln.prev.exc = "") =>
        /\ cln.last.read = cln.prev.read
        /\ cln.last.duplicates = cln.prev.duplicates
        /\ cln.last.written = cln.prev.written
        /\ SameTable(cln.dest, cln.before)

\* A second run over the same raw table wrote again the rows the first had written.
C20_Witness ==
    /\ cln.runs >= 2 /\ ~cln.changed /\ cln.later = <<>>
    /\ cln.last.exc = "" /\ cln.prev.exc = ""
    /\ cln.last.written >= 2 /\ cln.last.duplicates >= 1
    /\ Len(cln.before) >= 1

-----------------------------------------------------------------------------
(* Workflow objects: __init__, chain and run, and the lists their steps are kept in *)

ChainSteps == {"filter_bot", "tokenize_text"}

\* lists: the list objects, each with its elements now and who made it; flows: the
\* Workflow objects, each with the list object self.steps refers to, the steps it was
\* built with, and the steps its last run went through ("none" before its first run);
\* appends: how many steps the caller appended to its lists.
InitChain ==
    /\ IdleExtract
    /\ IdleFetch
    /\ IdleUpsert
    /\ IdleSession
    /\ IdleWorkflow
    /\ IdleClean
    /\ IdleStep
    /\ wfs = [lists |-> <<>>, flows |-> <<>>, appends |-> 0]

\* The steps the workflow has now: what self.steps refers to.
StepsOf(w) == wfs.lists[w.steps].items

\* Workflow(steps) on a list the caller made: self.steps = steps
Construct ==
    /\ Len(wfs.flows) < MaxWorkflows
    /\ \E items \in SeqUpTo(ChainSteps, 1) :
           wfs' = [appends |-> wfs.appends,
                   lists |-> Append(wfs.lists, [items |-> items, by |-> "caller"]),
                   flows |-> Append(wfs.flows, [steps |-> Len(wfs.lists) + 1, built |-> items,
                                                of |-> 0, ran |-> <<"none">>])]
    /\ UNCHANGED <<fin, fout, ups, ses, wf, cln, stp>>
    /\ UNCHANGED extractVars

\* w.chain(*steps): Workflow(self.steps + list(steps)), the sum being a new list
Chain ==
    /\ Len(wfs.flows) < MaxWorkflows
    /\ \E w \in 1..Len(wfs.flows), steps \in SeqUpTo(ChainSteps, 1) :
           LET sum == StepsOf(wfs.flows[w]) \o steps
           IN  wfs' = [appends |-> wfs.appends,
                       lists |-> Append(wfs.lists, [items |-> sum, by |-> "chain"]),
                       flows |-> Append(wfs.flows, [steps |-> Len(wfs.lists) + 1, built |-> sum,
                                                    of |-> w, ran |-> <<"none">>])]
    /\ UNCHANGED <<fin, fout, ups, ses, wf, cln, stp>>
    /\ UNCHANGED extractVars

\* The caller appends a step to a list it made and passed to the constructor.
CallerAppends ==
    /\ \E l \in 1..Len(wfs.lists), step \in ChainSteps :
           /\ wfs.lists[l].by = "caller"
           /\ wfs.appends < MaxAppends
           /\ wfs' = [wfs EXCEPT !.lists[l].items = Append(@, step), !.appends = @ + 1]
    /\ UNCHANGED <<fin, fout, ups, ses, wf, cln, stp>>
    /\ UNCHANGED extractVars

\* w.run(event): for step in self.steps
RunSteps ==
    /\ \E w \in 1..Len(wfs.flows) :
           /\ wfs.flows[w].ran # StepsOf(wfs.flows[w])
           /\ wfs' = [wfs EXCEPT !.flows[w].ran = StepsOf(wfs.flows[w])]
    /\ UNCHANGED <<fin, fout, ups, ses, wf, cln, stp>>
    /\ UNCHANGED extractVars

NextChain == Construct \/ Chain \/ CallerAppends \/ RunSteps

SpecChain == InitChain /\ [][NextChain]_vars

\* C22: whatever was chained, run or appended by the caller afterwards, every workflow
\* has, and runs, the steps it was built with.
C22_StepsAsBuilt ==
    \A w \in 1..Len(wfs.flows) :
        /\ StepsOf(wfs.flows[w]) = wfs.flows[w].built
        /\ wfs.flows[w].ran \in {<<"none">>, wfs.flows[w].built}

\* chain makes a list of its own for the new workflow and changes no list object.
ChainLeavesOriginal ==
    [][Chain => /\ SubSeq(wfs'.lists, 1, Len(wfs.lists)) = wfs.lists
                /\ SubSeq(wfs'.flows, 1, Len(wfs.flows)) = wfs.flows
                /\ wfs'.flows[Len(wfs'.flows)].steps = Len(wfs'.lists)]_vars

-----------------------------------------------------------------------------
(* One call of one exported step on one context *)

\* a pull request event with title and body
EvPull ==
    [BaseEvent EXCEPT !.id = IdStr("21"), !.type = "PullRequestEvent",
                      !.payload = Payload(NoSub, NoSub,
                                          Sub(TStr(<<"F", "i", "x">>), TStr(<<"i", "t">>), "OWNER"),
                                          NoSub)]
\* a review event with a body, whose comment object has an empty association
EvReview ==
    [BaseEvent EXCEPT !.id = IdStr("22"), !.type = "PullRequestReviewEvent",
                      !.payload = Payload(Sub(TAbsent, TAbsent, ""),
                                          Sub(TAbsent, TStr(<<"O", "k", " ", "s", "o">>), "CONTRIBUTOR"),
                                          NoSub, NoSub)]
\* a comment event whose association is on the issue only
EvIssueAssoc ==
    [EvKeep EXCEPT !.id = IdInt("23"),
                   !.payload = Payload(Sub(TAbsent, TStr(<<"G", "o", " ", "o", "n">>), Absent),
                                       NoSub, NoSub, Sub(TAbsent, TAbsent, "NONE"))]
\* records by an actor without login, with "login": null, with "login": "", without actor
EvNoLogin == [EvKeep EXCEPT !.id = IdStr("24"), !.actor = Actor(Absent)]
EvNullLogin == [EvKeep EXCEPT !.id = IdStr("25"), !.actor = Actor(Null)]
EvEmptyLogin == [EvKeep EXCEPT !.id = IdStr("26"), !.actor = Actor("")]
EvNoActor == [EvKeep EXCEPT !.id = IdStr("27"), !.actor = NoActor]
\* a human whose login holds a vocabulary entry
EvMarcia == [EvKeep EXCEPT !.id = IdStr("28"), !.actor = Actor("marcia")]
\* an ordinary comment on a record without created_at
EvKeepNoCreated == [EvKeep EXCEPT !.id = IdStr("29"), !.created_at = Absent]

StepEvents ==
    {EvKeep, EvLgtm, EvBot, EvDiff, EvReviewNull, EvNoText, EvPush, EvPull, EvReview,
     EvIssueAssoc, EvNoLogin, EvNullLogin, EvEmptyLogin, EvNoActor, EvMarcia,
     EvKeepNoCreated, EvPullNullComment, EvNullComment, EvStrRepo, EvNullRepo, EvKeepNullId,
     EvNoId}

\* The context after the steps i..n of the list, or the one the first step that did not
\* return a context was called with.
RECURSIVE ContextAfter(_, _, _, _)
ContextAfter(steps, i, n, ctx) ==
    IF i > n THEN ctx
    ELSE The({IF r.kind = "ctx" THEN ContextAfter(steps, i + 1, n, r.ctx) ELSE ctx
                 : r \in {ApplyStep(steps[i], ctx)}})

\* The contexts the default workflow goes through on the records of the model.
ContextsByEvent ==
    {ContextAfter(default_workflow, 1, n, Context(EventRecord(e)))
        : e \in StepEvents, n \in 0..Len(default_workflow)}

TextChars == {"a", " ", "+", "-", "\n", "\r"}

\* keep this / +added line / -removed line / keep that, with short lines
DiffExample == <<"a", " ", "a", "\n", "+", "a", "\n", "-", "a", " ", "a", "\n", "a", "a">>

\* lines ended by "\r\n", the second indented and led by +
DiffExampleCrLf == <<"a", "\r", "\n", " ", "+", "a", "\r", "\n", "a", "\r", "\n">>

Texts == SeqUpTo(TextChars, MaxText) \cup {DiffExample, DiffExampleCrLf}

\* Contexts that differ in text or in cleaned_text.
ContextsByText ==
    {[Context(EventRecord(EvKeep)) EXCEPT !.text = TStr(t)] : t \in Texts}
        \cup {[Context(EventRecord(EvKeep)) EXCEPT !.cleaned_text = TStr(t)] : t \in Texts}

\* Contexts that differ in tokens.
ContextsByTokens ==
    {[Context(EventRecord(EvKeep)) EXCEPT !.tokens = t]
        : t \in SeqUpTo({<<"a">>, <<"b", "c">>}, MaxTokens)}

\* ctx: the context given; step: the step called ("" before the call); min_tokens: the
\* threshold given to filter_min_tokens; kind: "ctx", "drop" or "raise"; out: the
\* context returned; exc: the exception raised.
InitStep ==
    /\ IdleExtract
    /\ IdleFetch
    /\ IdleUpsert
    /\ IdleSession
    /\ IdleWorkflow
    /\ IdleClean
    /\ IdleChain
    /\ \E ctx \in ContextsByEvent \cup ContextsByText \cup ContextsByTokens :
           stp = [ctx |-> ctx, step |-> "", min_tokens |-> 0, kind |-> "", out |-> ctx,
                  exc |-> ""]

\* The state after the step of that name returned r.
Called(name, r) ==
    /\ stp.step = ""
    /\ stp' = [stp EXCEPT !.step = name, !.kind = r.kind, !.out = r.ctx, !.exc = r.exc]
    /\ UNCHANGED <<fin, fout, ups, ses, wf, cln, wfs>>
    /\ UNCHANGED extractVars

CallFilterBot == Called("filter_bot", filter_bot(stp.ctx))

CallExtractText == Called("extract_text", extract_text(stp.ctx))

CallStripCode == Called("strip_code", strip_code(stp.ctx))

CallStripImages == Called("strip_images", strip_images(stp.ctx))

CallStripDiff == Called("strip_diff", strip_diff(stp.ctx))

CallNormalizeLowercase == Called("normalize_lowercase", normalize_lowercase(stp.ctx))

CallTokenizeText == Called("tokenize_text", tokenize_text(stp.ctx))

CallFilterMinTokens ==
    \E m \in 0..(MaxTokens + 1) :
        LET r == filter_min_tokens(stp.ctx, m)
        IN  /\ stp.step = ""
            /\ stp' = [stp EXCEPT !.step = "filter_min_tokens", !.min_tokens = m,
                                  !.kind = r.kind, !.out = r.ctx, !.exc = r.exc]
            /\ UNCHANGED <<fin, fout, ups, ses, wf, cln, wfs>>
            /\ UNCHANGED extractVars

CallFinalize == Called("finalize", finalize_step(stp.ctx))

CallSlimOutput == Called("slim_output", slim_output(stp.ctx))

NextStep ==
    \/ CallFilterBot
    \/ CallExtractText
    \/ CallStripCode
    \/ CallStripImages
    \/ CallStripDiff
    \/ CallNormalizeLowercase
    \/ CallTokenizeText
    \/ CallFilterMinTokens
    \/ CallFinalize
    \/ CallSlimOutput

SpecStep == InitStep /\ [][NextStep]_vars

\* C23: filter_min_tokens drops the record if and only if the context has fewer tokens
\* than the threshold, and returns the context as it was otherwise.
C23_FilterMinTokens ==
    stp.step = "filter_min_tokens" =>
        /\ stp.kind \in {"ctx", "drop"}
        /\ stp.kind = "drop" <=> Len(stp.ctx.tokens) < stp.min_tokens
        /\ stp.kind = "ctx" => stp.out = stp.ctx

\* With threshold 2 a context with two tokens was kept as it was.
C23_Witness ==
    /\ stp.step = "filter_min_tokens" /\ stp.min_tokens = 2
    /\ Len(stp.ctx.tokens) = 2 /\ stp.kind = "ctx" /\ stp.out = stp.ctx

\* With threshold 2 a context with exactly one token was dropped.
C23_WitnessOneToken ==
    /\ stp.step = "filter_min_tokens" /\ stp.min_tokens = 2
    /\ Len(stp.ctx.tokens) = 1 /\ stp.kind = "drop"

\* The text a cleaning step reads: ctx.cleaned_text or ctx.text or ""
TextRead(ctx) == FirstText(ctx.cleaned_text, ctx.text)

\* The positions where a line boundary of the text ends: a "\n", or a "\r" that no "\n"
\* follows.
BreakEnds(text) ==
    {i \in 1..Len(text) :
        \/ text[i] = "\n"
        \/ text[i] = "\r" /\ ~(i < Len(text) /\ text[i + 1] = "\n")}

\* Where the boundary that ends at i starts.
BreakStart(text, i) == IF text[i] = "\n" /\ i > 1 /\ text[i - 1] = "\r" THEN i - 1 ELSE i

\* The k-th smallest element of a set of numbers (0 for k = 0).
Nth(S, k) == IF k = 0 THEN 0 ELSE CHOOSE x \in S : Cardinality({y \in S : y < x}) = k - 1

\* The lines of a text: what stands between two boundaries, before the first and,
\* unless empty, after the last.
LinesOf(text) ==
    LET E == BreakEnds(text)
        n == Cardinality(E)
        ended == [k \in 1..n |-> SubSeq(text, Nth(E, k - 1) + 1, BreakStart(text, Nth(E, k)) - 1)]
    IN  IF Nth(E, n) < Len(text)
        THEN Append(ended, SubSeq(text, Nth(E, n) + 1, Len(text)))
        ELSE ended

\* The first character of the line that is not whitespace is + or -.
LeadsWithSign(line) ==
    \E i \in 1..Len(line) :
        /\ line[i] \in {"+", "-"}
        /\ \A j \in 1..(i - 1) : line[j] \in Whitespace

\* C24: strip_diff returns the context with, as cleaned text, the lines of the text it
\* read whose trimmed form does not begin with + or -, in their order, unaltered and
\* joined by newlines.
C24_StripDiff ==
    stp.step = "strip_diff" =>
        LET NotDiff(line) == ~LeadsWithSign(line)
        IN  /\ stp.kind = "ctx"
            /\ stp.out.cleaned_text = TStr(Join(SelectSeq(LinesOf(TextRead(stp.ctx)), NotDiff), <<"\n">>))
            /\ stp.out = [stp.ctx EXCEPT !.cleaned_text = stp.out.cleaned_text]

\* keep this / +added line / -removed line / keep that became keep this / keep that.
C24_Witness ==
    /\ stp.step = "strip_diff" /\ TextRead(stp.ctx) = DiffExample
    /\ stp.out.cleaned_text = TStr(<<"a", " ", "a", "\n", "a", "a">>)

\* An indented line led by + between lines ended by "\r\n" was removed.
C24_WitnessIndented ==
    /\ stp.step = "strip_diff" /\ TextRead(stp.ctx) = DiffExampleCrLf
    /\ stp.out.cleaned_text = TStr(<<"a", "\n", "a">>)

-----------------------------------------------------------------------------
(* GHArchiveReader.__init__: the configuration is built and validated, then the run *)

DEFAULT_EVENT_TYPES ==
    {"PullRequestEvent", "PullRequestReviewEvent", "PullRequestReviewCommentEvent",
     "IssueCommentEvent"}

\* A validation that looks at the dates only.
post_init_dates_only(c) ==
    IF c.start_date >= c.end_date THEN "start_date must be before end_date" ELSE ""

\* ExtractionConfig.__post_init__: the message of the ValueError raised, "" when none.
post_init(c) ==
    IF c.start_date >= c.end_date THEN "start_date must be before end_date"
    ELSE IF c.repositories = <<>> THEN "repositories cannot be empty"
    ELSE IF c.event_types = {} THEN "event_types cannot be empty"
    ELSE ""

\* The arguments given to the reader: event_types may be None ("none").
InitConfig ==
    /\ IdleSession
    /\ IdleWorkflow
    /\ IdleClean
    /\ IdleFetch
    /\ IdleUpsert
    /\ IdleChain
    /\ IdleStep
    /\ \E start \in 0..MaxHours, end \in 0..MaxHours,
          repositories \in {<<>>, <<"a/b", "C/D">>},
          event_types \in {{"none"}, {}, DEFAULT_EVENT_TYPES} :
           cfg = [repositories |-> repositories, start_date |-> start, end_date |-> end,
                  event_types |-> event_types]
    /\ plan = <<>>
    /\ archive = [h \in 0..(MaxHours - 1) |-> Unknown]
    /\ budget = [lines |-> MaxArchiveLines, failures |-> MaxFailures]
    /\ pc = "config"
    /\ gen = [current_date |-> 0, hour |-> 0]
    /\ held = <<>>
    /\ writers = <<>>
    /\ store = <<>>
    /\ metadata = <<>>
    /\ exc = [type |-> "", at |-> ""]
    /\ log = NewLog(1, "")
    /\ ref = <<>>

\* GHArchiveReader.__init__: event_types None becomes the default, ExtractionConfig is
\* built (and validates itself), then DataExtractor(config).
ConstructReader ==
    /\ pc = "config"
    /\ LET config == [cfg EXCEPT !.event_types = IF @ = {"none"} THEN DEFAULT_EVENT_TYPES ELSE @]
       IN  /\ cfg' = config
           /\ pc' = IF post_init(config) # "" THEN "raised" ELSE "new"
           /\ exc' = IF post_init(config) # "" THEN [type |-> "ValueError", at |-> "config"] ELSE exc
    /\ UNCHANGED <<plan, archive, budget, gen, held, writers, store, metadata, log, ref,
                   fin, fout, ups, ses, wf, cln, wfs, stp>>

NextConfig ==
    \/ ConstructReader
    \/ OpenWriters
    \/ FetchHour
    \/ ProcessBatch
    \/ StoreWriteFails
    \/ EndOfRange
    \/ FinalizeWriter

SpecConfig == InitConfig /\ [][NextConfig]_vars

\* The configuration has no repository, no event kind, or a start that is not before
\* its end.
Invalid(c) == c.repositories = <<>> \/ c.event_types = {} \/ c.start_date >= c.end_date

\* Nothing was fetched and no store was opened or written.
NoInputOutput ==
    /\ log.attempted = <<>>
    /\ \A h \in DOMAIN archive : archive[h] = Unknown
    /\ writers = <<>>
    /\ store = <<>>
    /\ metadata = <<>>

\* C25: once the constructor was called with an invalid configuration it has raised
\* ValueError, and nothing was fetched and no store was opened; a valid configuration
\* raises nothing there.
C25_ValidationBeforeIO ==
    /\ (pc # "config" /\ Invalid(cfg)) =>
           /\ pc = "raised"
           /\ exc = [type |-> "ValueError", at |-> "config"]
           /\ NoInputOutput
    /\ exc.at = "config" => Invalid(cfg)

\* A configuration with dates in order and event kinds but no repository was refused.
C25_Witness ==
    /\ pc = "raised" /\ exc.at = "config"
    /\ cfg.repositories = <<>> /\ cfg.start_date < cfg.end_date /\ cfg.event_types # {}
    /\ NoInputOutput

\* A configuration with an empty list of event kinds was refused.
C25_WitnessNoKinds ==
    /\ pc = "raised" /\ exc.at = "config"
    /\ cfg.repositories # <<>> /\ cfg.start_date < cfg.end_date /\ cfg.event_types = {}

\* A reader given no event kinds (None) took the default ones and ran.
C25_WitnessDefaultKinds ==
    /\ pc = "done" /\ cfg.event_types = DEFAULT_EVENT_TYPES /\ log.attempted # <<>>

\* The login of the record's actor as the record spells it; no characters when the
\* record has no actor, the actor no login, or the login is null or empty.
LoginOf(record) ==
    IF record.actor.shape = "obj" /\ record.actor.login \notin {Absent, Null}
    THEN LoginText(record.actor.login) ELSE <<>>

\* The vocabulary entry stands in the login at some place, letter case apart.
OccursIn(entry, login) ==
    \E at \in 0..(Len(login) - Len(entry)) :
        \A j \in 1..Len(entry) : LowerChar(login[at + j]) = entry[j]

\* C27: filter_bot drops the record if and only if the actor's login is missing or empty
\* or holds, letter case apart, an entry of the bot/CI vocabulary; otherwise it returns
\* the context as it was.
C27_FilterBot ==
    stp.step = "filter_bot" =>
        LET login == LoginOf(stp.ctx.event.src)
        IN  /\ stp.kind \in {"ctx", "drop"}
            /\ stp.kind = "drop" <=>
                   \/ login = <<>>
                   \/ \E i \in 1..Len(BOT_CI_PATTERNS) : OccursIn(BOT_CI_PATTERNS[i], login)
            /\ stp.kind = "ctx" => stp.out = stp.ctx

\* A record by an actor whose login holds a vocabulary entry in another letter case was
\* dropped.
C27_Witness ==
    /\ stp.step = "filter_bot" /\ stp.kind = "drop"
    /\ stp.ctx.event.src.actor = Actor("Renovate")

\* A record by an ordinary login passed unchanged; one with "login": null was dropped.
C27_WitnessPass ==
    /\ stp.step = "filter_bot" /\ stp.kind = "ctx" /\ stp.out = stp.ctx
    /\ stp.ctx.event.src.actor = Actor("alice")

C27_WitnessNullLogin ==
    /\ stp.step = "filter_bot" /\ stp.kind = "drop"
    /\ stp.ctx.event.src.actor = Actor(Null)

\* The object of the payload that carries the text of a record of that kind.
TextObject(record) ==
    IF record.type = "PullRequestEvent" THEN record.payload.pull_request
    ELSE IF record.type = "PullRequestReviewEvent" THEN record.payload.review
    ELSE record.payload.comment

\* A record of a text-bearing kind whose text can be read off the payload.
TextBearing(record) ==
    /\ record.json = "object" /\ record.type \in EventType
    /\ record.payload.shape = "obj" /\ TextObject(record).shape # "null"

\* The kind-specific text: title, a line break and body of a pull request (the title alone
\* when there is no body), the body of a comment or of a review.
DerivedText(record) ==
    LET o == TextObject(record)
    IN  IF record.type = "PullRequestEvent" /\ TextOr(o.body) # <<>>
        THEN TextOr(o.title) \o <<"\n">> \o o.body.s
        ELSE IF record.type = "PullRequestEvent" THEN TextOr(o.title)
        ELSE TextOr(o.body)

ExtractTextAsDerived ==
    LET t == DerivedText(stp.ctx.event.src)
    IN  /\ stp.kind \in {"ctx", "drop"}
        /\ stp.kind = "drop" <=> Strip(t) = <<>>
        /\ stp.kind = "ctx" => stp.out = [stp.ctx EXCEPT !.text = TStr(t)]

\* C28: extract_text sets the context text to the record's kind-specific text and drops
\* the record exactly when that text is empty or whitespace only; a record of a
\* text-bearing kind whose text is not empty is kept, whatever its other fields are.
C28_ExtractText ==
    (stp.step = "extract_text" /\ stp.ctx.event.form = "event" /\ TextBearing(stp.ctx.event.src))
        => ExtractTextAsDerived

\* The same for the records GitHubEvent.from_dict accepts (a created_at that parses, a
\* repo and an actor that are objects or missing).
ExtractTextOfParsedRecord ==
    (/\ stp.step = "extract_text" /\ stp.ctx.event.form = "event"
     /\ TextBearing(stp.ctx.event.src) /\ from_dict(stp.ctx.event.src) = "")
        => ExtractTextAsDerived

\* A pull request with title and body was kept with both as its text.
ExtractTextKeptPull ==
    /\ stp.step = "extract_text" /\ stp.kind = "ctx" /\ stp.ctx.event.src = EvPull
    /\ stp.out.text = TStr(<<"F", "i", "x", "\n", "i", "t">>)

NonDropping ==
    {"strip_code", "strip_images", "strip_diff", "normalize_lowercase", "tokenize_text",
     "finalize", "slim_output"}

\* C29: for every context, strip_code, strip_images, strip_diff, normalize_lowercase,
\* tokenize_text, finalize and slim_output return a context, never the drop signal (so
\* that in the default workflow only filter_bot, extract_text and filter_min_tokens end
\* a record).
C29_AlwaysReturnContext == stp.step \in NonDropping => stp.kind = "ctx"

\* None of the seven steps returns the drop signal.
NonDroppingNeverDrop == stp.step \in NonDropping => stp.kind # "drop"

\* In the default workflow a drop comes from filter_bot, extract_text or filter_min_tokens.
DefaultDropsOnlyByFilters ==
    (wf.steps = default_workflow /\ wf.result = "drop") =>
        wf.invoked[Len(wf.invoked)] \in {"filter_bot", "extract_text", "filter_min_tokens"}

\* The keys of the dict a context carries: those of the record as read, the same with
\* cleaned_text and tokens after finalize, the keys of the dict literal of slim_output.
KeysOf(record) ==
    LET src == record.src
        read == {k \in {"id", "type", "created_at", "actor", "repo", "payload"} :
                    CASE k = "id" -> src.id.t # "absent"
                      [] k = "type" -> src.type # Absent
                      [] k = "created_at" -> src.created_at # Absent
                      [] k = "actor" -> src.actor.shape # "absent"
                      [] k = "repo" -> src.repo.shape # "absent"
                      [] k = "payload" -> src.payload.shape # "absent"}
    IN  CASE record.form = "slim" ->
                {"id", "cleaned_text", "repo", "created_at", "type", "author_association",
                 "tokens"}
          [] record.form = "merged" -> read \cup {"cleaned_text", "tokens"}
          [] OTHER -> read

\* The author_association values of payload.comment, payload.review,
\* payload.pull_request and payload.issue, in that order.
Associations(src) ==
    <<src.payload.comment.author_association, src.payload.review.author_association,
      src.payload.pull_request.author_association, src.payload.issue.author_association>>

C30_WitnessMerged ==
    /\ stp.step = "slim_output" /\ stp.kind = "ctx" /\ stp.ctx.event.form = "merged"
    /\ stp.ctx.event.src = EvIssueAssoc
    /\ stp.out.event.src.id = IdInt("23") /\ stp.out.event.author_association = "NONE"
    /\ "payload" \notin KeysOf(stp.out.event) /\ "payload" \in KeysOf(stp.ctx.event)

-----------------------------------------------------------------------------
(* The indexed columns of the events table *)

\* The five indexed columns as the record of a row gives them: a missing, null or empty
\* value reads as "".
ColumnsOf(record) ==
    LET text(v) == IF v \in {Absent, Null} THEN "" ELSE v
        a == Associations(record)
        given == {k \in 1..4 : a[k] \notin {Absent, Null, ""}}
    IN  [repo |-> IF record.repo.shape = "obj" THEN text(record.repo.name) ELSE "",
         created_at |-> text(record.created_at),
         type |-> text(record.type),
         author_association |->
             IF record.payload.shape # "obj" \/ given = {} THEN ""
             ELSE a[CHOOSE k \in given : \A j \in given : k <= j],
         actor_login |-> IF record.actor.shape = "obj" THEN text(record.actor.login) ELSE ""]

Indexed(row) ==
    [repo |-> row.repo, created_at |-> row.created_at, type |-> row.type,
     author_association |-> row.author_association, actor_login |-> row.actor_login]

\* C31: after any sequence of upserts, in every row of the events table (committed, or
\* as the writing connection sees it) repo, created_at, type, author_association and
\* actor_login are the values of the record in the row's event_data; a replaced row has
\* the columns of the record that replaced it.
C31_ColumnsFollowRecord ==
    /\ \A i \in 1..Len(ups.db) : Indexed(ups.db[i]) = ColumnsOf(ups.db[i].event_data)
    /\ LET view == ViewOf(ups.w, ups.db)
       IN  \A i \in 1..Len(view) : Indexed(view[i]) = ColumnsOf(view[i].event_data)

\* The row of id "1" was written with repo "a/b" and then replaced by the record with the
\* integer id 1 of repo "A/B": the row has the columns of the second record.
C31_Witness ==
    /\ ups.calls = 2 /\ ups.A = <<EvPlain>> /\ ups.B = <<EvIntId>> /\ ups.first_call = "A"
    /\ Len(ups.db) = 1 /\ ups.db[1].event_data = EvIntId /\ ups.db[1].repo = "A/B"

-----------------------------------------------------------------------------
(* Rows are never deleted *)

\* C32: no step of a sequence of cleaning runs and upserting extraction runs takes an id
\* out of the raw events table or out of the cleaned (destination) table, and neither
\* table gets fewer rows.
C32_NoDeletes ==
    [][/\ IdSet(cln.events) \subseteq IdSet(cln'.events)
       /\ Len(cln.events) <= Len(cln'.events)
       /\ IdSet(cln.dest) \subseteq IdSet(cln'.dest)
       /\ Len(cln.dest) <= Len(cln'.dest)]_vars

\* After a first run an extraction replaced the record of a cleaned row by one the
\* workflow drops, and the second run left the cleaned row of that id in place.
C32_Witness ==
    /\ cln.runs = 2 /\ cln.last.exc = "" /\ cln.later = <<EvLgtmInt>>
    /\ \E i \in 1..Len(cln.events) :
           /\ cln.events[i].event_data = EvLgtmInt
           /\ ~Kept(EvLgtmInt)
           /\ cln.events[i].id \in IdSet(cln.dest)

-----------------------------------------------------------------------------
(* The metadata record of an extraction run *)

\* C33: in one extraction run, whatever the number of configured repositories, the run
\* metadata record is written exactly once, after the last batch has been appended, and
\* its count describes the whole run (here the first run, on an empty store: the rows of
\* the store).
C33_MetadataOncePerRun ==
    (pc = "done" /\ log.run = 1) =>
        /\ Len(metadata) = 1
        /\ metadata[Len(metadata)].record_count = Len(store)

\* The metadata record is written once per configured repository, each time after the
\* last batch of the run.
MetadataOncePerWriter ==
    log.run = 1 =>
        /\ pc \in {"new", "loop", "body", "raised", "killed"} => metadata = <<>>
        /\ pc = "done" => Len(metadata) = Len(cfg.repositories)

\* The count of the record that stays is the count of the writer finalized last.
MetadataCountOfLastWriter ==
    (pc = "done" /\ log.run = 1) =>
        metadata[Len(metadata)].record_count = writers[Len(writers)].w.count

\* A run that stored rows ended with a metadata record whose count is 0.
MetadataCountZero ==
    /\ pc = "done" /\ log.run = 1 /\ Len(store) >= 1
    /\ metadata[Len(metadata)].record_count = 0

-----------------------------------------------------------------------------
(* What the default workflow lets through of the extracted text *)

\* The lines of the text that strip_diff keeps.
KeptLines(text) ==
    LET lines == LinesOf(text)
    IN  {lines[k] : k \in {n \in 1..Len(lines) : ~LeadsWithSign(lines[n])}}

\* C34: in the default workflow every token of a record that survives comes from a line
\* of the extracted text that strip_diff keeps; a record whose extracted text has diff
\* lines only ends without tokens and is dropped by filter_min_tokens, no later step
\* falling back to the text as extracted.
C34_RemovedNeverReturns ==
    (wf.steps = default_workflow /\ wf.result = "return") =>
        \A k \in 1..Len(wf.out.tokens) :
            \E line \in KeptLines(DerivedText(wf.given)) :
                \E j \in 1..Len(tokenize(line)) : tokenize(line)[j] = wf.out.tokens[k]

\* The same for the records of which strip_diff keeps some text.
RemovedLinesNeverReturnIfSomeKept ==
    (/\ wf.steps = default_workflow /\ wf.result = "return"
     /\ \E line \in KeptLines(DerivedText(wf.given)) : Strip(line) # <<>>) =>
        \A k \in 1..Len(wf.out.tokens) :
            \E line \in KeptLines(DerivedText(wf.given)) :
                \E j \in 1..Len(tokenize(line)) : tokenize(line)[j] = wf.out.tokens[k]

\* The record with diff lines only came out of the default workflow with the tokens of
\* its diff lines.
DiffOnlySurvives ==
    /\ wf.steps = default_workflow /\ wf.result = "return" /\ wf.given = EvDiffOnly
    /\ wf.out.tokens = <<<<"a">>, <<"b">>, <<"c">>, <<"d">>>>

\* A record with a kept line and a diff line came out with the tokens of the kept line.
DiffLineRemoved ==
    /\ wf.steps = default_workflow /\ wf.result = "return" /\ wf.given = EvDiff
    /\ wf.out.tokens = <<<<"s", "e", "e">>, <<"f", "i", "x">>>>

-----------------------------------------------------------------------------
(* The counts the writers of one run report *)

\* The rows of the table whose repo column is, letter case apart, the writer's key.
RowsOfRepo(table, key) == {i \in 1..Len(table) : Lower(table[i].repo) = key}

RECURSIVE SumOfCounts(_)
SumOfCounts(d) == IF d = <<>> THEN 0 ELSE Head(d).w.count + SumOfCounts(Tail(d))

\* C35: when a run has one writer per configured repository on the shared store, the
\* count each writer reports at finalize is the number of net-new rows of its own
\* repository added during the run, and the counts of all writers sum to the net-new
\* rows of the store (here the first run, on an empty store).
C35_PerRepositoryCounts ==
    (pc = "done" /\ log.run = 1) =>
        /\ \A i \in 1..Len(writers) :
               writers[i].w.count = Cardinality(RowsOfRepo(store, writers[i].key))
        /\ SumOfCounts(writers) = Len(store)

\* What each writer reports instead: the rows the whole store had gained when that
\* writer last appended, 0 for a writer that never appended.
CountIsStoreGrowthSeen ==
    (pc = "done" /\ log.run = 1) =>
        \A i \in 1..Len(writers) : writers[i].w.count <= Len(store)

\* A run stored one row for each of two repositories and one writer reported 2.
CountsOtherRepository ==
    /\ pc = "done" /\ log.run = 1 /\ Len(store) = 2
    /\ \A i \in 1..Len(writers) : Cardinality(RowsOfRepo(store, writers[i].key)) = 1
    /\ \E i \in 1..Len(writers) : writers[i].w.count = 2

-----------------------------------------------------------------------------
(* Cleaning a raw table that append_events wrote *)

\* C36: when the raw events table was written by append_events only, no two of its rows
\* hold records with the same string-coerced id, and every cleaning run over it that
\* returns reports duplicates = 0.
C36_NoDuplicatesAfterUpsert ==
    cln.upserted =>
        /\ \A i, j \in 1..Len(cln.events) :
               (i # j /\ CleanKey(cln.events[i].event_data.id) # "")
                   => CleanKey(cln.events[i].event_data.id) # CleanKey(cln.events[j].event_data.id)
        /\ (cln.runs >= 1 /\ cln.last.exc = "") => cln.last.duplicates = 0

\* The id "11" was upserted as a string and, after a first cleaning run, again as an
\* integer; the second run read one row of that id and counted no duplicate.
C36_Witness ==
    /\ cln.upserted /\ cln.runs = 2 /\ cln.last.exc = "" /\ ~cln.changed
    /\ cln.later = <<EvLgtmInt>>
    /\ \E i \in 1..Len(cln.events) : cln.events[i].event_data = EvLgtmInt
    /\ \A i \in 1..Len(cln.events) : cln.events[i].event_data # EvKeep
    /\ cln.prev.written >= 1
    /\ cln.last.read = Len(cln.events) /\ cln.last.duplicates = 0

-----------------------------------------------------------------------------
(* The written count and the rows of the destination *)

\* The key clean_db stores the record of read position i under.
DestinationKey(table, i) ==
    IF CleanKey(table[i].event_data.id) # "" THEN CleanKey(table[i].event_data.id)
    ELSE DecimalOf(i)

\* C37: after a cleaning run into an empty destination table the destination has as many
\* rows as the written count returned, and no two records written are stored under the
\* same key, the records without id (keyed by read position) included.
C37_WrittenIsRowCount ==
    (cln.runs >= 1 /\ ~cln.changed /\ cln.last.exc = "" /\ cln.before = <<>>) =>
        /\ Len(cln.dest) = cln.last.written
        /\ \A a, b \in 1..Len(cln.last.writes) :
               a # b => DestinationKey(cln.events, cln.last.writes[a])
                            # DestinationKey(cln.events, cln.last.writes[b])

\* The same for raw tables in which every record has an id.
WrittenIsRowCountIfAllHaveId ==
    (/\ cln.runs >= 1 /\ ~cln.changed /\ cln.last.exc = "" /\ cln.before = <<>>
     /\ \A i \in 1..Len(cln.events) : CleanKey(cln.events[i].event_data.id) # "") =>
        Len(cln.dest) = cln.last.written

\* A run wrote two records and left one row.
WroteTwoLeftOne ==
    /\ cln.runs = 1 /\ cln.last.exc = "" /\ cln.last.written = 2 /\ Len(cln.dest) = 1

-----------------------------------------------------------------------------
(* Cleaning and the raw table *)

\* C38: a cleaning run leaves the raw events table of the source store as it was, rows
\* and content, whether it writes the cleaned table of the same store or the events
\* table of another store.
C38_CleaningLeavesRaw == [][cln'.runs # cln.runs => cln'.events = cln.events]_vars

\* A run into the cleaned table of the same store wrote rows; the raw table still has
\* the rows append_events gave it.
C38_Witness ==
    /\ cln.same_db /\ cln.runs = 1 /\ cln.last.exc = "" /\ cln.last.written >= 1
    /\ Len(cln.dest) >= 1
    /\ cln.events = UpsertTable(<<EvKeep, EvLgtm>>)

\* A run into the events table of another store wrote rows.
C38_WitnessOtherStore ==
    /\ ~cln.same_db /\ cln.runs = 1 /\ cln.last.exc = "" /\ cln.last.written >= 1
    /\ cln.events = UpsertTable(<<EvKeep, EvLgtm>>)
    /\ Len(cln.dest) = 1 /\ cln.dest[1].event_data.form = "slim"

-----------------------------------------------------------------------------
(* The rows a cleaning run with the default workflow writes *)

\* The maximal runs of word characters of the text, in order.
WordRuns(text) ==
    LET Word(i) == i \in 1..Len(text) /\ text[i] \in WordChars
        starts == {i \in 1..Len(text) : Word(i) /\ ~Word(i - 1)}
        EndOf(i) == CHOOSE e \in i..Len(text) :
                        (\A j \in i..e : Word(j)) /\ ~Word(e + 1)
    IN  [k \in 1..Cardinality(starts) |-> SubSeq(text, Nth(starts, k), EndOf(Nth(starts, k)))]

\* Lowercase, and no whitespace at either end or next to other whitespace.
Normalized(text) ==
    /\ \A i \in 1..Len(text) : \A u \in 1..Len(UpperCase) : text[i] # UpperCase[u]
    /\ text # <<>> => text[1] \notin Whitespace /\ text[Len(text)] \notin Whitespace
    /\ \A i \in 1..(Len(text) - 1) : ~(text[i] \in Whitespace /\ text[i + 1] \in Whitespace)

\* C39: every record a cleaning run with the default workflow wrote has at least two
\* tokens, its tokens are the maximal word-character runs of its cleaned_text in order,
\* and its cleaned_text is lowercase without leading, trailing or consecutive whitespace.
C39_CleanedRowsWellFormed ==
    \A i \in 1..Len(cln.dest) :
        LET record == cln.dest[i].event_data
        IN  /\ record.cleaned_text.t = "str"
            /\ Len(record.tokens) >= 2
            /\ record.tokens = WordRuns(record.cleaned_text.s)
            /\ Normalized(record.cleaned_text.s)

\* A run wrote the record of the comment " Ok", empty line, "Go " as "ok go" with the
\* tokens ok and go.
C39_Witness ==
    /\ cln.runs >= 1 /\ cln.last.exc = "" /\ cln.last.written >= 1
    /\ \E i \in 1..Len(cln.dest) :
           /\ cln.dest[i].id = "32"
           /\ cln.dest[i].event_data.cleaned_text = TStr(<<"o", "k", " ", "g", "o">>)
           /\ cln.dest[i].event_data.tokens = <<<<"o", "k">>, <<"g", "o">>>>

====
